---- MODULE Spec2Model ----
(***************************************************************************)
(* Model of comboi: the stage sequencer (Driver, Executor) and its         *)
(* in-process run; the distributed continuation protocol (the              *)
(* timer-triggered driver function, the queue-triggered executor function  *)
(* and the storage queue between them); the checkpoint store and its       *)
(* sessions, within one process and across processes; the incremental      *)
(* extraction of the connectors and the bronze stage that uploads its      *)
(* files; and the data contracts (loader, schema, quality and SLA          *)
(* validators, the validation run and its callers).                        *)
(*                                                                         *)
(* Each component has its own specification over the shared variables,     *)
(* with the other components idle.                                         *)
(*                                                                         *)
(* Strings that the code inspects character by character (stage names,    *)
(* which are lower-cased and compared) are sequences of one-character      *)
(* strings; Optional[str] is a record [some, s].                           *)
(***************************************************************************)
EXTENDS Integers, Sequences, FiniteSets, TLC

VARIABLES
    runs,       \* one record per invocation of the timer-triggered driver function
    messages,   \* every message ever sent to the storage queue, in sending order, with its queue status
    workers,    \* one record per invocation of the queue-triggered executor function
    faults,     \* number of executor invocations that ended by an exception or a crash
    hangs,      \* number of visibility timeouts that expired under a running invocation
    calls,      \* the task calls made by driver.run_stage: pairs <<invocation, task>>
    cli,        \* one in-process command (cli.py run / plan): Driver.run, Driver.plan
    inodes,     \* the files of the checkpoint directory: inodes[i] is the content of file i
    links,      \* the directory: the file at the checkpoint path and at its .tmp sibling (0: none)
    checkpoint_lock, \* _checkpoint_lock: the thread that holds it (0: free)
    threads,    \* the threads of the process that use CheckpointStore on the path
    journal,    \* what has happened to the checkpoint: committed document, values given, crashes
    source,     \* the values of the incremental column in the rows of the source table
    watermark,  \* the value the checkpoint holds for the checkpoint key of the table
    extractions, \* the calls of export_table for the table
    written,    \* the updates of the watermark made by export_table, in order
    uploads,    \* the exported files the bronze stage has uploaded to the data lake, in order
    validation, \* one call of a contract validator: its input, and its result when it has returned
    contract_run \* one call of ContractLoader.load or of ContractValidator.validate, by itself or from a caller

ckVars == <<inodes, links, checkpoint_lock, threads, journal>>

exVars == <<source, watermark, extractions, written, uploads>>

vars == <<runs, messages, workers, faults, hangs, calls, cli, ckVars, exVars, validation,
          contract_run>>

distVars == <<runs, messages, workers, faults, hangs, calls>>

\* What the actions of the distributed mode, of the in-process run and of the
\* checkpoint store leave alone.
notDist == <<cli, ckVars, exVars, validation, contract_run>>

notCli == <<distVars, ckVars, exVars, validation, contract_run>>

notCk == <<distVars, cli, exVars, validation, contract_run>>

notEx == <<distVars, cli, ckVars, validation, contract_run>>

notValidation == <<distVars, cli, ckVars, exVars, contract_run>>

notContract == <<distVars, cli, ckVars, exVars, validation>>

\* ---------------------------------------------------------------- bounds

\* Events the environment chooses in one behaviour: firings of the timer
\* (or a message put on the queue from outside), and disturbances of executor invocations (a run_stage that raises, a
\* process that dies, a visibility timeout that expires while the invocation
\* that received the message is still running).
MaxEvents == 2

\* Deliveries that are followed of a message whose stage has no task: its
\* run_stage fails by itself on every delivery, with no event of the
\* environment.
MaxDeliveries == 2

\* The environment has chosen fewer than MaxEvents events so far (messages
\* has one entry per firing of the timer or message from outside).
EventAllowed == Len(messages) + faults + hangs < MaxEvents

\* ---------------------------------------------------------------- strings

LowerChars == <<"a", "b", "d", "e", "g", "i", "l", "n", "o", "r", "s", "v", "z">>

UpperChars == <<"A", "B", "D", "E", "G", "I", "L", "N", "O", "R", "S", "V", "Z">>

\* str.lower() on one character.
LowerChar(c) ==
    IF \E i \in 1..Len(UpperChars) : UpperChars[i] = c
    THEN LowerChars[CHOOSE i \in 1..Len(UpperChars) : UpperChars[i] = c]
    ELSE c

\* str.upper() on one character (used only to enumerate the inputs).
UpperChar(c) ==
    IF \E i \in 1..Len(LowerChars) : LowerChars[i] = c
    THEN UpperChars[CHOOSE i \in 1..Len(LowerChars) : LowerChars[i] = c]
    ELSE c

\* str.lower()
Lower(s) == [i \in 1..Len(s) |-> LowerChar(s[i])]

\* The characters of the string literals of the code. Stage names that the
\* code only passes on and compares whole are kept as strings; the name read
\* from the command line or the environment is a sequence of characters.
Chars(str) ==
    CASE str = "bronze" -> <<"b", "r", "o", "n", "z", "e">>
      [] str = "silver" -> <<"s", "i", "l", "v", "e", "r">>
      [] str = "gold" -> <<"g", "o", "l", "d">>
      [] str = "all" -> <<"a", "l", "l">>

\* Optional[str]
None == [some |-> FALSE, s |-> <<>>]

Some(s) == [some |-> TRUE, s |-> s]

\* Python truthiness of an Optional[str]: None and "" are falsy.
Truthy(selected) == selected.some /\ selected.s # <<>>

\* Every spelling of s in upper and lower case letters.
RECURSIVE CaseVariants(_)
CaseVariants(s) ==
    IF s = <<>>
    THEN {<<>>}
    ELSE {<<c>> \o t : c \in {Head(s), UpperChar(Head(s))}, t \in CaseVariants(Tail(s))}

\* ---------------------------------------------------------------- Driver

\* order = ["bronze", "silver", "gold"]
order == <<"bronze", "silver", "gold">>

\* x in list, for a sequence of characters x and a list of string literals
InList(x, list) == \E i \in 1..Len(list) : Chars(list[i]) = x

\* list.index(x), 0-based; x is in list
Index(list, x) == (CHOOSE i \in 1..Len(list) :
                      Chars(list[i]) = x /\ \A j \in 1..(i - 1) : Chars(list[j]) # x) - 1

\* list[idx:], idx 0-based
SliceFrom(list, idx) == SubSeq(list, idx + 1, Len(list))

\* A call that returned value v.
Returned(v) == [ok |-> TRUE, value |-> v, error |-> <<>>]

\* A call that raised; the exception message is kept as its parts.
Raised(kind, text, arg) == [ok |-> FALSE, value |-> <<>>, error |-> <<kind, text, arg>>]

\* Driver.execution_order without the lower-casing of the selected name.
execution_order_no_lower(selected) ==
    IF ~Truthy(selected) \/ selected.s = Chars("all")
    THEN Returned(order)
    ELSE IF ~InList(selected.s, order)
         THEN Raised("ValueError", "Unknown stage ", selected.s)
         ELSE Returned(SliceFrom(order, Index(order, selected.s)))

\* Driver.execution_order that returns the full order for a name it does not
\* know.
execution_order_lenient(selected) ==
    IF ~Truthy(selected) \/ selected.s = Chars("all")
    THEN Returned(order)
    ELSE LET stage == Lower(selected.s) IN
         IF ~InList(stage, order)
         THEN Returned(order)
         ELSE Returned(SliceFrom(order, Index(order, stage)))

\* Driver.execution_order
execution_order(selected) ==
    IF ~Truthy(selected) \/ selected.s = Chars("all")
    THEN Returned(order)
    ELSE LET stage == Lower(selected.s) IN
         IF ~InList(stage, order)
         THEN Raised("ValueError", "Unknown stage ", selected.s)
         ELSE Returned(SliceFrom(order, Index(order, stage)))

\* Driver.plan
plan(selected) == execution_order(selected)

\* The keys of Driver._task_map()
TaskNames == {"bronze", "silver", "gold"}

\* The summaries a stage task can return (the joined output paths).
Summaries == {"out1", "out2"}

\* Driver._task_map: the task bound to each stage name.
task_map ==
    [n \in TaskNames |->
        CASE n = "bronze" -> "bronze_stage.run"
          [] n = "silver" -> "silver_stage.run"
          [] n = "gold" -> "gold_stage.run"]

\* Driver.run_stage with a fallback: a name with no task gets the first one.
run_stage_with_default(stage) ==
    Returned(task_map[IF stage \in DOMAIN task_map THEN stage ELSE "bronze"])

\* Driver.run_stage: the task to call for the name (dict.get compares the
\* name as it is), or the failure raised when there is none.
run_stage(stage) ==
    IF stage \notin DOMAIN task_map
    THEN Raised("ValueError", "No task registered for stage ", stage)
    ELSE Returned(task_map[stage])

\* ---------------------------------------------------------------- in-process run (cli.py, Driver.run, Executor.run)

\* The names the commands are given: every spelling of the three stage names
\* and of "all", no name, the empty name, and names outside the enumeration.
CliInputs ==
    {None, Some(<<>>)}
    \cup {Some(s) : s \in CaseVariants(Chars("bronze")) \cup CaseVariants(Chars("silver"))
                          \cup CaseVariants(Chars("gold")) \cup CaseVariants(Chars("all"))}
    \cup {Some(<<"d">>), Some(<<"D">>), Some(<<"g", "o", "l", "d", "s">>),
          Some(<<"b", "r", "o", "n", "z">>), Some(<<"g", "o", "l", "d", " ">>)}

\* results: Dict[str, str] = {}
EmptyDict == [n \in {} |-> "out1"]

\* d[k] = v
DictSet(d, k, v) == [n \in DOMAIN d \cup {k} |-> IF n = k THEN v ELSE d[n]]

\* No command in progress.
CliIdle ==
    [cmd |-> "none", selected |-> None, pc |-> "idle", stages |-> <<>>, tasks |-> {},
     i |-> 0, results |-> EmptyDict, invoked |-> <<>>, returned |-> <<>>,
     raisedAt |-> 0, error |-> <<>>]

\* A command about to start.
CliCommand(cmd, selected) ==
    [CliIdle EXCEPT !.cmd = cmd, !.selected = selected, !.pc = "start"]

\* cli.py plan_pipeline -> Driver.plan
CliPlan ==
    /\ cli.pc = "start" /\ cli.cmd = "plan"
    /\ LET r == plan(cli.selected) IN
       cli' = IF r.ok
              THEN [cli EXCEPT !.pc = "done", !.stages = r.value]
              ELSE [cli EXCEPT !.pc = "failed", !.error = r.error]
    /\ UNCHANGED notCli

\* cli.py run_pipeline -> Driver.run up to the call of Executor.run
CliRunStart ==
    /\ cli.pc = "start" /\ cli.cmd = "run"
    /\ LET r == execution_order(cli.selected) IN
       cli' = IF r.ok
              THEN [cli EXCEPT !.pc = "loop", !.stages = r.value, !.i = 1,
                               !.tasks = {r.value[k] : k \in 1..Len(r.value)} \cap TaskNames]
              ELSE [cli EXCEPT !.pc = "failed", !.error = r.error]
    /\ UNCHANGED notCli

\* One iteration of the loop of Executor.run whose task call is skipped on a
\* failure of an earlier task instead of ending the loop.
ExecutorTaskRaisesAndContinues ==
    /\ cli.pc = "loop" /\ cli.i <= Len(cli.stages)
    /\ cli.stages[cli.i] \in cli.tasks
    /\ cli' = [cli EXCEPT !.invoked = Append(@, cli.stages[cli.i]),
                          !.raisedAt = cli.i, !.i = @ + 1,
                          !.error = <<"TaskError", "task failed ", cli.stages[cli.i]>>]
    /\ UNCHANGED notCli

\* One iteration of the loop of Executor.run in which the task returns.
ExecutorTaskReturns ==
    /\ cli.pc = "loop" /\ cli.i <= Len(cli.stages)
    /\ LET name == cli.stages[cli.i] IN
       IF name \notin cli.tasks
       THEN cli' = [cli EXCEPT !.pc = "failed",
                               !.error = <<"KeyError", "No task registered for stage ", name>>]
       ELSE \E result \in Summaries :
                cli' = [cli EXCEPT !.invoked = Append(@, name),
                                   !.returned = Append(@, result),
                                   !.results = DictSet(@, name, result),
                                   !.i = @ + 1]
    /\ UNCHANGED notCli

\* One iteration of the loop of Executor.run in which the task raises: the
\* exception is logged and re-raised, out of Executor.run and Driver.run.
ExecutorTaskRaises ==
    /\ cli.pc = "loop" /\ cli.i <= Len(cli.stages)
    /\ cli.stages[cli.i] \in cli.tasks
    /\ cli' = [cli EXCEPT !.invoked = Append(@, cli.stages[cli.i]),
                          !.raisedAt = cli.i, !.pc = "failed",
                          !.error = <<"TaskError", "task failed ", cli.stages[cli.i]>>]
    /\ UNCHANGED notCli

\* Executor.run returns results; Driver.run returns them to run_pipeline.
ExecutorReturns ==
    /\ cli.pc = "loop" /\ cli.i > Len(cli.stages)
    /\ cli' = [cli EXCEPT !.pc = "done"]
    /\ UNCHANGED notCli

\* ---------------------------------------------------------------- checkpoint store (checkpoint.py)

\* Calls of get and update made in one behaviour.
MaxOps == 2

\* Times the process dies in one behaviour.
MaxCrashes == 1

\* Checkpoint keys.
CkKeys == {"a", "b"}

\* A Python value: its type and its content.
PyValue(type, v) == [t |-> type, v |-> v]

\* Values given to update (Any that json.dump accepts).
UpdateInputs == {PyValue("int", "1"), PyValue("str", "x"), PyValue("tuple", "1")}

\* Defaults given to get.
DefaultInputs == {PyValue("NoneType", "None"), PyValue("int", "0")}

\* json.dump of a value: a tuple is written as a list is, as an array.
json_dump(value) ==
    [j |-> CASE value.t \in {"list", "tuple"} -> "array"
             [] value.t = "int" -> "number"
             [] value.t = "str" -> "string"
             [] OTHER -> "null",
     v |-> value.v]

\* json.load of a JSON value: an array is read as a list.
json_load(text) ==
    [t |-> CASE text.j = "array" -> "list"
             [] text.j = "number" -> "int"
             [] text.j = "string" -> "str"
             [] OTHER -> "NoneType",
     v |-> text.v]

\* The dict {} and the document "{}".
EmptyData == [k \in {} |-> PyValue("NoneType", "None")]

\* json.dump of a dict: the document.
DumpDict(data) == [k \in DOMAIN data |-> json_dump(data[k])]

\* A read that finds no key in any document.
LoadDictEmpty(doc) == EmptyData

\* json.load of a document: the dict.
LoadDict(doc) == [k \in DOMAIN doc |-> json_load(doc[k])]

\* Content of a file: a complete document, nothing (just opened for
\* writing), or bytes that are no document; size stands for its length (a
\* document is longer the more keys it has).
Document(doc) == [state |-> "document", doc |-> doc, size |-> Cardinality(DOMAIN doc) + 1]

Truncated == [state |-> "empty", doc |-> DumpDict(EmptyData), size |-> 0]

Garbled(size) == [state |-> "garbled", doc |-> DumpDict(EmptyData), size |-> size]

\* A handle opened at offset 0 writes `new` over the content `old`: what is
\* longer than the new bytes stays behind them.
Overwrite(old, new) == IF old.size <= new.size THEN new ELSE Garbled(old.size)

\* A thread that has not constructed its CheckpointStore yet.
NewThread ==
    [pc |-> "construct", in |-> "none", op |-> "none", key |-> "none",
     value |-> PyValue("NoneType", "None"), default |-> PyValue("NoneType", "None"),
     data |-> EmptyData, fh |-> 0,
     result |-> PyValue("NoneType", "None"), error |-> "none"]

\* Nothing has happened to the checkpoint.
NewJournal ==
    [ops |-> 0, crashes |-> 0, crashedIn |-> "none", interrupted |-> "none",
     committed |-> Truncated, given |-> EmptyData]

\* The state of the checkpoint directory before any store is constructed.
CkFresh ==
    /\ inodes = <<>>
    /\ links = [path |-> 0, tmp |-> 0]
    /\ checkpoint_lock = 0
    /\ journal = NewJournal

\* Thread t leaves the session (or the constructor's write) it is in: the
\* with statement releases the lock it holds.
Release(t) == IF checkpoint_lock = t THEN 0 ELSE checkpoint_lock

\* CheckpointStore.__init__: if the path does not exist, write {} (outside
\* any session, without the lock).
Construct(t) ==
    /\ threads[t].pc = "construct"
    /\ threads' = [threads EXCEPT ![t] =
          IF links.path = 0
          THEN [@ EXCEPT !.pc = "open", !.in = "init", !.data = EmptyData]
          ELSE [@ EXCEPT !.pc = "idle"]]
    /\ UNCHANGED <<inodes, links, checkpoint_lock, journal, notCk>>

\* get(key, default) or update(key, value): session takes the lock and reads
\* the document at the path; get takes data.get(key, default) as its result,
\* update sets data[key]; the write of data is still to come.
Call(t, op, key, value, default) ==
    /\ threads[t].pc = "idle"
    /\ journal.ops < MaxOps
    /\ checkpoint_lock = 0
    /\ journal' = [journal EXCEPT !.ops = @ + 1]
    /\ LET content == inodes[links.path]
           data == LoadDict(content.doc)
           called == [threads[t] EXCEPT !.op = op, !.key = key, !.value = value,
                                        !.default = default, !.in = "session"]
       IN  IF content.state # "document"
           THEN /\ threads' = [threads EXCEPT ![t] =
                       [called EXCEPT !.pc = "failed", !.error = "JSONDecodeError"]]
                /\ UNCHANGED checkpoint_lock
           ELSE /\ threads' = [threads EXCEPT ![t] =
                       [called EXCEPT
                           !.pc = "open",
                           !.data = IF op = "update" THEN DictSet(data, key, value) ELSE data,
                           !.result = IF op = "update" THEN PyValue("NoneType", "None")
                                      ELSE IF key \in DOMAIN data THEN data[key]
                                      ELSE default]]
                /\ checkpoint_lock' = t
    /\ UNCHANGED <<inodes, links, notCk>>

\* A session whose lock stays taken when its body raises.
SessionRaisesHoldsLock(t) ==
    /\ threads[t].pc = "idle"
    /\ journal.ops < MaxOps
    /\ checkpoint_lock = 0
    /\ journal' = [journal EXCEPT !.ops = @ + 1]
    /\ threads' = [threads EXCEPT ![t] =
          [@ EXCEPT !.op = "session", !.in = "session", !.pc = "failed",
                    !.error = IF inodes[links.path].state # "document"
                              THEN "JSONDecodeError" ELSE "BodyError"]]
    /\ checkpoint_lock' = t
    /\ UNCHANGED <<inodes, links, notCk>>

\* with store.session() as data: a body that raises (in get and update, a
\* key that cannot be hashed). session takes the lock and reads; the
\* exception is thrown into the generator at its yield, so _write is not
\* reached, and leaving `with _checkpoint_lock` releases the lock.
SessionRaises(t) ==
    /\ threads[t].pc = "idle"
    /\ journal.ops < MaxOps
    /\ checkpoint_lock = 0
    /\ journal' = [journal EXCEPT !.ops = @ + 1]
    /\ threads' = [threads EXCEPT ![t] =
          [@ EXCEPT !.op = "session", !.in = "session", !.pc = "failed",
                    !.error = IF inodes[links.path].state # "document"
                              THEN "JSONDecodeError" ELSE "BodyError"]]
    /\ UNCHANGED <<inodes, links, checkpoint_lock, notCk>>

\* get or update in a thread of another process: _checkpoint_lock is a
\* threading.Lock of the module, one per process, so the session takes the
\* lock of its own process (free, the thread being alone there) and not the
\* one that checkpoint_lock stands for.
CallElsewhere(t, op, key, value, default) ==
    /\ threads[t].pc = "idle"
    /\ journal.ops < MaxOps
    /\ journal' = [journal EXCEPT !.ops = @ + 1]
    /\ LET content == inodes[links.path]
           data == LoadDict(content.doc)
           called == [threads[t] EXCEPT !.op = op, !.key = key, !.value = value,
                                        !.default = default, !.in = "session"]
       IN  IF content.state # "document"
           THEN threads' = [threads EXCEPT ![t] =
                   [called EXCEPT !.pc = "failed", !.error = "JSONDecodeError"]]
           ELSE threads' = [threads EXCEPT ![t] =
                   [called EXCEPT
                       !.pc = "open",
                       !.data = IF op = "update" THEN DictSet(data, key, value) ELSE data,
                       !.result = IF op = "update" THEN PyValue("NoneType", "None")
                                  ELSE IF key \in DOMAIN data THEN data[key]
                                  ELSE default]]
    /\ UNCHANGED <<inodes, links, checkpoint_lock, notCk>>

\* _write that opens the checkpoint path itself for writing.
OpenInPlace(t) ==
    /\ threads[t].pc = "open"
    /\ IF links.path = 0
       THEN /\ inodes' = Append(inodes, Truncated)
            /\ links' = [links EXCEPT !.path = Len(inodes) + 1]
       ELSE /\ inodes' = [inodes EXCEPT ![links.path] = Truncated]
            /\ UNCHANGED links
    /\ threads' = [threads EXCEPT ![t].pc = "dump", ![t].fh = links'.path]
    /\ UNCHANGED <<checkpoint_lock, journal, notCk>>

\* _write, tmp.open("w"): the .tmp file is created, or emptied if there is
\* one; the handle stays on that file whatever its name becomes.
Open(t) ==
    /\ threads[t].pc = "open"
    /\ IF links.tmp = 0
       THEN /\ inodes' = Append(inodes, Truncated)
            /\ links' = [links EXCEPT !.tmp = Len(inodes) + 1]
       ELSE /\ inodes' = [inodes EXCEPT ![links.tmp] = Truncated]
            /\ UNCHANGED links
    /\ threads' = [threads EXCEPT ![t].pc = "dump", ![t].fh = links'.tmp]
    /\ UNCHANGED <<checkpoint_lock, journal, notCk>>

\* _write, json.dump and the end of the with block: the document goes to the
\* file of the handle, from offset 0.
DumpClose(t) ==
    /\ threads[t].pc = "dump"
    /\ inodes' = [inodes EXCEPT ![threads[t].fh] =
          Overwrite(@, Document(DumpDict(threads[t].data)))]
    /\ threads' = [threads EXCEPT ![t].pc = "replace"]
    /\ UNCHANGED <<links, checkpoint_lock, journal, notCk>>

\* _write, tmp.replace(path): the .tmp file takes the place of the file at
\* the path, or FileNotFoundError if there is no .tmp file any more; then the
\* session ends and the lock is released.
Replace(t) ==
    /\ threads[t].pc = "replace"
    /\ checkpoint_lock' = Release(t)
    /\ IF links.tmp = 0
       THEN /\ threads' = [threads EXCEPT ![t].pc = "failed",
                                          ![t].error = "FileNotFoundError"]
            /\ UNCHANGED <<links, journal>>
       ELSE /\ links' = [path |-> links.tmp, tmp |-> 0]
            /\ threads' = [threads EXCEPT ![t].pc = "idle"]
            /\ journal' = [journal EXCEPT
                  !.committed = inodes[links.tmp],
                  !.given = IF threads[t].in = "session" /\ threads[t].op = "update"
                            THEN DictSet(@, threads[t].key, threads[t].value)
                            ELSE @]
    /\ UNCHANGED <<inodes, notCk>>

\* The process dies while thread t is in _write, and is started again: the
\* files stay as they are, threads and lock are new.
CrashProcess(t) ==
    /\ threads[t].pc \in {"open", "dump", "replace"}
    /\ journal.crashes < MaxCrashes
    /\ journal' = [journal EXCEPT !.crashes = @ + 1, !.crashedIn = threads[t].pc,
                                  !.interrupted = threads[t].key]
    /\ threads' = [u \in DOMAIN threads |-> NewThread]
    /\ checkpoint_lock' = 0
    /\ UNCHANGED <<inodes, links, notCk>>

\* No thread uses the checkpoint.
CkIdle == CkFresh /\ threads = <<>>

\* ---------------------------------------------------------------- incremental extraction (connectors/postgres.py, connectors/azure_sql.py)

\* Values of the incremental column.
SourceValues == {0, 1, 2}

\* An Optional value of the incremental column: None, or a number.
Nothing == [some |-> FALSE, v |-> 0]

Just(v) == [some |-> TRUE, v |-> v]

\* Python truth of an Optional number: None and 0 are false.
TruthyValue(x) == x.some /\ x.v # 0

\* SELECT MAX(column) over the rows, WHERE column > last_value when
\* last_value is true: None (NULL) when no row qualifies.
MaxAbove(rows, last_value) ==
    LET above == {v \in rows : TruthyValue(last_value) => v > last_value.v} IN
    IF above = {} THEN Nothing
    ELSE Just(CHOOSE v \in above : \A u \in above : u <= v)

\* The rows of SELECT * FROM (query) WHERE column > last_value, the WHERE
\* being there when last_value is true.
RowsAbove(rows, last_value) ==
    {v \in rows : TruthyValue(last_value) => v > last_value.v}

\* A call of export_table that has not started: `before` is the source as
\* it is when the call begins, `exported` the rows of the file it writes.
NewExtraction ==
    [pc |-> "get", last_value |-> Nothing, chk |-> Nothing,
     before |-> {}, exported |-> {}]

\* Nothing is extracted.
ExIdle ==
    /\ source = {} /\ watermark = Nothing
    /\ extractions = <<>> /\ written = <<>> /\ uploads = <<>>

\* export_table: last_value = self.checkpoint_store.get(checkpoint_key)
ExportGet(e) ==
    /\ extractions[e].pc = "get"
    /\ extractions' = [extractions EXCEPT
          ![e].pc = "query", ![e].last_value = watermark, ![e].before = source]
    /\ UNCHANGED <<source, watermark, written, uploads, notEx>>

\* export_table that updates the checkpoint in the step of its COPY.
ExportCopyUpdatesFirst(e) ==
    /\ extractions[e].pc = "query"
    /\ extractions' = [extractions EXCEPT
          ![e].pc = "max",
          ![e].exported = RowsAbove(source, extractions[e].last_value)]
    /\ LET chk == MaxAbove(source, extractions[e].last_value) IN
       IF TruthyValue(chk)
       THEN /\ watermark' = chk
            /\ written' = Append(written,
                  [by |-> e, read |-> extractions[e].last_value,
                   value |-> chk.v, over |-> watermark])
       ELSE UNCHANGED <<watermark, written>>
    /\ UNCHANGED <<source, uploads, notEx>>

\* export_table: COPY (query) TO destination, the rows above last_value.
ExportCopy(e) ==
    /\ extractions[e].pc = "query"
    /\ extractions' = [extractions EXCEPT
          ![e].pc = "max",
          ![e].exported = RowsAbove(source, extractions[e].last_value)]
    /\ UNCHANGED <<source, watermark, written, uploads, notEx>>

\* export_table: the MAX query, a statement of its own after the COPY.
ExportMax(e) ==
    /\ extractions[e].pc = "max"
    /\ extractions' = [extractions EXCEPT
          ![e].pc = "update",
          ![e].chk = MaxAbove(source, extractions[e].last_value)]
    /\ UNCHANGED <<source, watermark, written, uploads, notEx>>

\* export_table: if result and result[0], checkpoint_store.update(key, result[0]).
ExportUpdate(e) ==
    /\ extractions[e].pc = "update"
    /\ extractions' = [extractions EXCEPT ![e].pc = "done"]
    /\ IF TruthyValue(extractions[e].chk)
       THEN /\ watermark' = extractions[e].chk
            /\ written' = Append(written,
                  [by |-> e, read |-> extractions[e].last_value,
                   value |-> extractions[e].chk.v, over |-> watermark])
       ELSE UNCHANGED <<watermark, written>>
    /\ UNCHANGED <<source, uploads, notEx>>

\* A row arrives in the source table.
InsertRow(v) ==
    /\ v \notin source
    /\ source' = source \cup {v}
    /\ UNCHANGED <<watermark, extractions, written, uploads, notEx>>

\* ---------------------------------------------------------------- bronze stage (pipeline/stages/bronze.py, io/adls.py)

\* An execution of the bronze stage for the table has ended: its file is
\* uploaded, or it failed.
BronzeEnded(e) == extractions[e].pc \in {"uploaded", "failed"}

\* BronzeStage.run: exported = connector.export_table(...), in an execution
\* that begins when the one before it has ended (the stage is run again
\* after a failure, or by the next run of the pipeline).
BronzeExport(e) ==
    /\ IF e = 1 THEN TRUE ELSE BronzeEnded(e - 1)
    /\ ExportGet(e)

\* export_table raises in one of its queries: the checkpoint is not touched.
ExportFails(e) ==
    /\ extractions[e].pc \in {"query", "max"}
    /\ extractions' = [extractions EXCEPT ![e].pc = "failed"]
    /\ UNCHANGED <<source, watermark, written, uploads, notEx>>

\* BronzeStage.run: remote_uri = self.data_lake.upload(exported, remote_path)
Upload(e) ==
    /\ extractions[e].pc = "done"
    /\ extractions' = [extractions EXCEPT ![e].pc = "uploaded"]
    /\ uploads' = Append(uploads, [by |-> e, rows |-> extractions[e].exported])
    /\ UNCHANGED <<source, watermark, written, notEx>>

\* ADLSClient.upload raises: the stage fails with the file not uploaded.
UploadFails(e) ==
    /\ extractions[e].pc = "done"
    /\ extractions' = [extractions EXCEPT ![e].pc = "failed"]
    /\ UNCHANGED <<source, watermark, written, uploads, notEx>>

\* ---------------------------------------------------------------- contract validators (contracts/*.py)

\* Quality rules of a contract in one behaviour.
MaxRules == 2

\* SchemaValidationResult, QualityValidationResult, SLAValidationResult
ValidationResult(passed, errors, warnings) ==
    [passed |-> passed, errors |-> errors, warnings |-> warnings]

\* A quality rule as the validator meets it: its place in the contract is
\* its name; `configured` says whether it has the column, query or bound
\* its type needs; `outcome` is what its query does on the dataset: it finds
\* nothing ("clean"), finds what the rule forbids ("violated"), or fails
\* ("raises": malformed SQL, missing column).
RuleInputs ==
    [type : {"uniqueness", "not_null", "volume", "custom_sql", "freshness"},
     severity : {"error", "warning"},
     configured : BOOLEAN,
     outcome : {"clean", "violated", "raises"}]

\* The rule lists of at most n rules.
RECURSIVE RuleLists(_)
RuleLists(n) ==
    IF n = 0 THEN {<<>>}
    ELSE LET shorter == RuleLists(n - 1) IN
         shorter \cup {Append(l, r) : l \in {s \in shorter : Len(s) = n - 1}, r \in RuleInputs}

\* An entry of errors or warnings: f"Rule {rule.name}: {text}".
RuleEntry(name, text) == <<name, text>>

\* The query of a rule is executed: volume always counts the rows, the
\* other types need their column or query first.
Executes(rule) ==
    \/ rule.type = "volume"
    \/ rule.type \in {"uniqueness", "not_null", "custom_sql"} /\ rule.configured

\* _validate_rule in which a failing query leaves no entry.
validate_rule_silent(name, rule) ==
    IF rule.type \notin {"uniqueness", "not_null", "volume", "custom_sql"}
    THEN [errors |-> <<>>, warnings |-> <<RuleEntry(name, "Unknown rule type")>>]
    ELSE IF ~Executes(rule)
    THEN [errors |-> <<RuleEntry(name, "rule requires column or query")>>, warnings |-> <<>>]
    ELSE IF rule.outcome = "violated" /\ rule.configured
    THEN IF rule.severity = "error"
         THEN [errors |-> <<RuleEntry(name, "violation")>>, warnings |-> <<>>]
         ELSE [errors |-> <<>>, warnings |-> <<RuleEntry(name, "violation")>>]
    ELSE [errors |-> <<>>, warnings |-> <<>>]

\* _validate_rule in which an unknown rule type is an error.
validate_rule_unknown_is_error(name, rule) ==
    IF rule.type \notin {"uniqueness", "not_null", "volume", "custom_sql"}
    THEN [errors |-> <<RuleEntry(name, "Unknown rule type")>>, warnings |-> <<>>]
    ELSE IF ~Executes(rule)
    THEN [errors |-> <<RuleEntry(name, "rule requires column or query")>>, warnings |-> <<>>]
    ELSE IF rule.outcome = "raises"
    THEN [errors |-> <<RuleEntry(name, "Error executing validation")>>, warnings |-> <<>>]
    ELSE IF rule.outcome = "violated" /\ rule.configured
    THEN IF rule.severity = "error"
         THEN [errors |-> <<RuleEntry(name, "violation")>>, warnings |-> <<>>]
         ELSE [errors |-> <<>>, warnings |-> <<RuleEntry(name, "violation")>>]
    ELSE [errors |-> <<>>, warnings |-> <<>>]

\* QualityValidator._validate_rule: the errors and warnings of one rule.
validate_rule(name, rule) ==
    IF rule.type \notin {"uniqueness", "not_null", "volume", "custom_sql"}
    THEN [errors |-> <<>>, warnings |-> <<RuleEntry(name, "Unknown rule type")>>]
    ELSE IF ~Executes(rule)
    THEN [errors |-> <<RuleEntry(name, "rule requires column or query")>>, warnings |-> <<>>]
    ELSE IF rule.outcome = "raises"
    THEN [errors |-> <<RuleEntry(name, "Error executing validation")>>, warnings |-> <<>>]
    ELSE IF rule.outcome = "violated" /\ rule.configured
    THEN IF rule.severity = "error"
         THEN [errors |-> <<RuleEntry(name, "violation")>>, warnings |-> <<>>]
         ELSE [errors |-> <<>>, warnings |-> <<RuleEntry(name, "violation")>>]
    ELSE [errors |-> <<>>, warnings |-> <<>>]

\* The loop body of validate with every rule's errors kept as errors.
CollectAsErrors(acc, name, rule) ==
    LET r == validate_rule(name, rule) IN
    [errors |-> acc.errors \o r.errors,
     warnings |-> acc.warnings \o r.warnings,
     evaluated |-> Append(acc.evaluated, name)]

\* QualityValidator.validate, the body of the loop: the rule's errors go to
\* errors if its severity is "error", to warnings otherwise.
Collect(acc, name, rule) ==
    LET r == validate_rule(name, rule) IN
    [errors |-> IF rule.severity = "error" THEN acc.errors \o r.errors ELSE acc.errors,
     warnings |-> IF rule.severity = "error" THEN acc.warnings \o r.warnings
                  ELSE acc.warnings \o r.errors \o r.warnings,
     evaluated |-> Append(acc.evaluated, name)]

\* QualityValidator.validate, the loop over the first n rules.
RECURSIVE QualityLoop(_, _)
QualityLoop(rules, n) ==
    IF n = 0 THEN [errors |-> <<>>, warnings |-> <<>>, evaluated |-> <<>>]
    ELSE Collect(QualityLoop(rules, n - 1), n, rules[n])

\* QualityValidator.validate
QualityValidate(rules) ==
    LET r == QualityLoop(rules, Len(rules)) IN
    ValidationResult(Len(r.errors) = 0, r.errors, r.warnings)

\* Rows of a dataset in one behaviour.
MaxRows == 2

\* A cell of a column: NULL, or a value.
Null == 0

CellValues == {Null, 1, 2}

\* The values of one column, row by row.
ColumnData == UNION {[1..k -> CellValues] : k \in 0..MaxRows}

\* An entry of errors or warnings of the schema validator: the text of the
\* message, the columns it names and the count it gives.
Entry(text, columns, count) == [text |-> text, columns |-> columns, count |-> count]

\* ColumnDefinition, with the constraints of the column in one mapping:
\* not_null and unique as they are; `violation` says that a min_value,
\* max_value or allowed_values constraint counts values that break it, and
\* `pattern` that an email pattern counts values that do not look like one.
ColumnDefinition(name, nullable, not_null, unique, violation, pattern) ==
    [name |-> name, nullable |-> nullable, not_null |-> not_null,
     unique |-> unique, violation |-> violation, pattern |-> pattern]

\* The column lists of a contract: the column id, with or without a second
\* column that has no constraint.
ContractColumns ==
    LET ids == {ColumnDefinition("id", nullable, not_null, unique, violation, pattern) :
                   nullable \in BOOLEAN, not_null \in BOOLEAN, unique \in BOOLEAN,
                   violation \in BOOLEAN, pattern \in BOOLEAN}
        name == ColumnDefinition("name", TRUE, FALSE, FALSE, FALSE, FALSE)
    IN  {<<id>> : id \in ids} \cup {<<id, name>> : id \in ids}

\* What SchemaValidator.validate meets: DESCRIBE works or fails; the columns
\* of the contract; the columns of the dataset (`actual`); what DESCRIBE says
\* of the column id (`null`: "YES" if it may hold NULL) and the values of
\* that column. A column that may not hold NULL holds none.
SchemaInputs ==
    {s \in [describe : {"ok", "raises"}, columns : ContractColumns,
            actual : SUBSET {"id", "name", "x"},
            null : {"YES", "NO"}, values : ColumnData] :
        s.null = "NO" => \A i \in 1..Len(s.values) : s.values[i] # Null}

\* The list <<entry>> if the condition holds, the empty list if not.
EntryIf(condition, entry) == IF condition THEN <<entry>> ELSE <<>>

\* The early return of SchemaValidator.validate with an empty errors list.
DescribeFailedNoError(e) == ValidationResult(FALSE, <<>>, <<>>)

\* SchemaValidator.validate, the early return when DESCRIBE fails.
DescribeFailed(e) ==
    ValidationResult(FALSE, <<Entry("Failed to describe dataset", {}, 0)>>, <<>>)

\* The column-set check with the extra columns reported as an error.
ColumnSetExtraIsError(expected_columns, actual_column_names) ==
    LET missing_columns == expected_columns \ actual_column_names
        extra_columns == actual_column_names \ expected_columns
    IN  [errors |-> EntryIf(missing_columns # {},
                            Entry("Missing required columns", missing_columns, 0))
                    \o EntryIf(extra_columns # {},
                               Entry("Extra columns found (not in contract)", extra_columns, 0)),
         warnings |-> <<>>]

\* SchemaValidator.validate, the check of the column sets.
ColumnSet(expected_columns, actual_column_names) ==
    LET missing_columns == expected_columns \ actual_column_names
        extra_columns == actual_column_names \ expected_columns
    IN  [errors |-> EntryIf(missing_columns # {},
                            Entry("Missing required columns", missing_columns, 0)),
         warnings |-> EntryIf(extra_columns # {},
                              Entry("Extra columns found (not in contract)", extra_columns, 0))]

\* SELECT COUNT(*) FROM dataset WHERE column IS NULL
NullCount(values) == Cardinality({i \in 1..Len(values) : values[i] = Null})

\* SELECT COUNT(*) FROM (SELECT column, COUNT(*) FROM dataset GROUP BY column
\* HAVING COUNT(*) > 1): GROUP BY puts the rows whose column is NULL in one
\* group, and COUNT(*) counts rows.
DuplicateCount(values) ==
    Cardinality({v \in {values[i] : i \in 1..Len(values)} :
                    Cardinality({i \in 1..Len(values) : values[i] = v}) > 1})

\* SchemaValidator._validate_column
validate_column(col_def, actual_col) ==
    [errors |->
        EntryIf(~col_def.nullable /\ actual_col.null = "YES",
                Entry("is nullable but contract requires NOT NULL", {col_def.name}, 0))
        \o EntryIf(col_def.not_null /\ NullCount(actual_col.values) > 0,
                   Entry("has NULL values but contract requires NOT NULL",
                         {col_def.name}, NullCount(actual_col.values)))
        \o EntryIf(col_def.unique /\ DuplicateCount(actual_col.values) > 0,
                   Entry("has duplicates but contract requires UNIQUE", {col_def.name}, 0))
        \o EntryIf(col_def.violation,
                   Entry("has values outside the constraint", {col_def.name}, 0)),
     warnings |->
        EntryIf(col_def.pattern,
                Entry("has values that may not match pattern", {col_def.name}, 0))]

\* actual_column_map[name]: what DESCRIBE says of the column, and its values
\* (the columns other than id hold NULL in every row).
ActualColumn(s, name) ==
    IF name = "id" THEN [null |-> s.null, values |-> s.values]
    ELSE [null |-> "YES", values |-> [i \in 1..Len(s.values) |-> Null]]

\* SchemaValidator.validate, the loop over the first n columns of the
\* contract: a column the dataset has not is passed over.
RECURSIVE SchemaLoop(_, _)
SchemaLoop(s, n) ==
    IF n = 0 THEN ColumnSet({s.columns[i].name : i \in 1..Len(s.columns)}, s.actual)
    ELSE LET acc == SchemaLoop(s, n - 1)
             col_def == s.columns[n]
         IN  IF col_def.name \notin s.actual THEN acc
             ELSE LET r == validate_column(col_def, ActualColumn(s, col_def.name)) IN
                  [errors |-> acc.errors \o r.errors, warnings |-> acc.warnings \o r.warnings]

\* SchemaValidator.validate
SchemaValidate(s) ==
    IF s.describe = "raises"
    THEN DescribeFailed(s.describe)
    ELSE LET r == SchemaLoop(s, Len(s.columns)) IN
         ValidationResult(Len(r.errors) = 0, r.errors, r.warnings)

\* Hours and row counts an SLA section or a dataset may have.
SLANumbers == {0, 1, 2}

\* An Optional dict of the sla mapping: None (Nothing), or a dict, here a
\* function from its keys to numbers.
NoDict == [some |-> FALSE, d |-> <<>>]

Dict(d) == [some |-> TRUE, d |-> d]

\* Python truth of an Optional dict: None and the empty dict are false.
TruthyDict(x) == x.some /\ DOMAIN x.d # {}

\* sla.freshness: None, an empty section, a section with max_age_hours, a
\* section with another key only.
FreshnessConfigs ==
    {NoDict, Dict(<<>>), Dict("schedule" :> 0)}
        \cup {Dict("max_age_hours" :> h) : h \in SLANumbers}

\* sla.completeness: None, an empty section, a section with min_row_count,
\* with expected_growth_rate, or with both.
CompletenessConfigs ==
    {NoDict, Dict(<<>>), Dict("expected_growth_rate" :> 1)}
        \cup {Dict("min_row_count" :> n) : n \in SLANumbers}
        \cup {Dict("min_row_count" :> n @@ "expected_growth_rate" :> 1) : n \in SLANumbers}

\* What SLAValidator.validate meets: the two sections of the contract, the
\* data file (Nothing if it is not there, or its age in hours) and the row
\* count of the dataset.
SLAInputs ==
    [freshness : FreshnessConfigs, completeness : CompletenessConfigs,
     file : {Nothing} \cup {Just(age) : age \in SLANumbers},
     row_count : SLANumbers]

\* _validate_freshness in which a file as old as max_age_hours is too old.
validate_freshness_at_limit(file, freshness_config) ==
    IF "max_age_hours" \notin DOMAIN freshness_config THEN <<>>
    ELSE IF ~file.some THEN <<"Data file not found">>
    ELSE EntryIf(file.v >= freshness_config["max_age_hours"], "Data freshness violation")

\* SLAValidator._validate_freshness: the errors (it gives no warning).
validate_freshness(file, freshness_config) ==
    IF "max_age_hours" \notin DOMAIN freshness_config THEN <<>>
    ELSE IF ~file.some THEN <<"Data file not found">>
    ELSE EntryIf(file.v > freshness_config["max_age_hours"], "Data freshness violation")

\* SLAValidator._validate_completeness
validate_completeness(row_count, completeness_config) ==
    [errors |->
        IF "min_row_count" \notin DOMAIN completeness_config THEN <<>>
        ELSE EntryIf(row_count < completeness_config["min_row_count"],
                     "Completeness violation"),
     warnings |->
        EntryIf("expected_growth_rate" \in DOMAIN completeness_config,
                "Expected growth rate check not implemented")]

\* SLAValidator.validate
SLAValidate(s) ==
    LET freshness_errors ==
            IF TruthyDict(s.freshness) THEN validate_freshness(s.file, s.freshness.d)
            ELSE <<>>
        completeness ==
            IF TruthyDict(s.completeness)
            THEN validate_completeness(s.row_count, s.completeness.d)
            ELSE [errors |-> <<>>, warnings |-> <<>>]
        errors == freshness_errors \o completeness.errors
    IN  ValidationResult(Len(errors) = 0, errors, completeness.warnings)

\* No validator is called.
ValidationIdle ==
    [validator |-> "none", input |-> <<>>, pc |-> "idle",
     result |-> ValidationResult(TRUE, <<>>, <<>>), evaluated |-> <<>>]

\* A validator is called with an input.
ValidationCall(validator, input) ==
    [validator |-> validator, input |-> input, pc |-> "call",
     result |-> ValidationResult(TRUE, <<>>, <<>>), evaluated |-> <<>>]

\* SchemaValidator.validate returns.
SchemaValidatorValidate ==
    /\ validation.pc = "call" /\ validation.validator = "schema"
    /\ validation' = [validation EXCEPT !.pc = "returned",
                                        !.result = SchemaValidate(validation.input)]
    /\ UNCHANGED notValidation

\* QualityValidator.validate returns.
QualityValidatorValidate ==
    /\ validation.pc = "call" /\ validation.validator = "quality"
    /\ validation' = [validation EXCEPT
          !.pc = "returned",
          !.result = QualityValidate(validation.input),
          !.evaluated = QualityLoop(validation.input, Len(validation.input)).evaluated]
    /\ UNCHANGED notValidation

\* SLAValidator.validate returns.
SLAValidatorValidate ==
    /\ validation.pc = "call" /\ validation.validator = "sla"
    /\ validation' = [validation EXCEPT !.pc = "returned",
                                        !.result = SLAValidate(validation.input)]
    /\ UNCHANGED notValidation

\* ---------------------------------------------------------------- contract loading and validation (contracts/contract_loader.py, contracts/contract_validator.py, bruin_quality.py)

\* ContractLoader.load: required_fields
required_fields ==
    <<"version", "dataset", "stage", "owner", "description", "schema",
      "quality_rules", "sla", "evolution">>

\* A contract file: not there, or what yaml.safe_load gives of it: None
\* (`parsed` "none", an empty file) or a mapping, of which the keys are kept
\* (the value of a key is not looked at by the loader).
NoFile == [exists |-> FALSE, parsed |-> "none", keys |-> {}]

EmptyFile == [exists |-> TRUE, parsed |-> "none", keys |-> {}]

Mapping(keys) == [exists |-> TRUE, parsed |-> "mapping", keys |-> keys]

\* The contract files: the mappings have any of the required keys and
\* possibly a key that is not required.
ContractFiles ==
    {NoFile, EmptyFile}
        \cup {Mapping(keys) : keys \in SUBSET ({required_fields[i] : i \in 1..Len(required_fields)}
                                                 \cup {"tags"})}

\* A file with every required key.
CompleteFile == Mapping({required_fields[i] : i \in 1..Len(required_fields)})

\* DataContract(...): the fields taken from the mapping.
DataContract(contract_data) == [fields |-> {required_fields[i] : i \in 1..Len(required_fields)}]

\* ContractLoader.load that names the first missing field only.
load_first_missing(contract_file) ==
    IF ~contract_file.exists
    THEN Raised("FileNotFoundError", "Contract file not found", <<>>)
    ELSE IF contract_file.parsed = "none" \/ contract_file.keys = {}
    THEN Raised("ValueError", "Contract file is empty", <<>>)
    ELSE LET missing_fields ==
                 SelectSeq(required_fields, LAMBDA field : field \notin contract_file.keys)
         IN  IF missing_fields # <<>>
             THEN Raised("ValueError", "Contract missing required fields",
                         <<missing_fields[1]>>)
             ELSE Returned(DataContract(contract_file))

\* ContractLoader.load: `not contract_data` holds of None and of the empty
\* mapping.
load(contract_file) ==
    IF ~contract_file.exists
    THEN Raised("FileNotFoundError", "Contract file not found", <<>>)
    ELSE IF contract_file.parsed = "none" \/ contract_file.keys = {}
    THEN Raised("ValueError", "Contract file is empty", <<>>)
    ELSE LET missing_fields ==
                 SelectSeq(required_fields, LAMBDA field : field \notin contract_file.keys)
         IN  IF missing_fields # <<>>
             THEN Raised("ValueError", "Contract missing required fields", missing_fields)
             ELSE Returned(DataContract(contract_file))

\* A validator result that is not there (sla_result = None, or a pass that
\* has not run), or that is.
NoResult == [some |-> FALSE, r |-> ValidationResult(TRUE, <<>>, <<>>)]

Result(r) == [some |-> TRUE, r |-> r]

\* ContractValidationResult
ContractValidationResult(schema_result, quality_result, sla_result) ==
    [schema_result |-> schema_result, quality_result |-> quality_result,
     sla_result |-> sla_result]

\* ContractValidationResult.passed
passed(result) ==
    IF ~result.schema_result.r.passed THEN FALSE
    ELSE IF ~result.quality_result.r.passed THEN FALSE
    ELSE IF result.sla_result.some /\ ~result.sla_result.r.passed THEN FALSE
    ELSE TRUE

\* all_errors without the errors of the SLA result.
all_errors_without_sla(result) ==
    result.schema_result.r.errors \o result.quality_result.r.errors

\* ContractValidationResult.all_errors
all_errors(result) ==
    result.schema_result.r.errors
        \o result.quality_result.r.errors
        \o (IF result.sla_result.some THEN result.sla_result.r.errors ELSE <<>>)

\* ContractValidationResult.all_warnings
all_warnings(result) ==
    result.schema_result.r.warnings
        \o result.quality_result.r.warnings
        \o (IF result.sla_result.some THEN result.sla_result.r.warnings ELSE <<>>)

\* The contract columns of a validation run: a column id with every check,
\* or with none.
RunColumns ==
    {<<ColumnDefinition("id", FALSE, TRUE, TRUE, FALSE, TRUE)>>,
     <<ColumnDefinition("id", TRUE, FALSE, FALSE, FALSE, FALSE)>>}

\* The datasets of a validation run, as the schema validator meets them:
\* DESCRIBE of the view over read_parquet gives "YES" for every column.
RunSchemaInputs ==
    [describe : {"ok", "raises"}, columns : RunColumns,
     actual : {{"id"}, {"x"}}, null : {"YES"}, values : {<<>>, <<Null, Null>>}]

\* The quality rules of a validation run: none, or one uniqueness rule.
RunRuleLists ==
    {<<>>} \cup {<<rule>> : rule \in [type : {"uniqueness"}, severity : {"error", "warning"},
                                     configured : {TRUE}, outcome : {"clean", "violated"}]}

\* What a call of validate meets: the contract file, the data file (Nothing
\* if it is not there, or its age in hours), the dataset, the rules and the
\* sla sections of the contract, whether the SLA is asked for, and whether a
\* query of a column check fails (a constraint that does not fit the type
\* of the column).
RunInputs ==
    [contract_file : {CompleteFile, NoFile},
     data_file : {Nothing, Just(2)},
     schema : RunSchemaInputs,
     rules : RunRuleLists,
     freshness : {NoDict, Dict("max_age_hours" :> 1)},
     completeness : {NoDict, Dict("min_row_count" :> 1)},
     validate_sla : BOOLEAN,
     column_check : {"ok", "raises"}]

\* No contract is loaded or validated.
ContractIdle ==
    [caller |-> "none", pc |-> "idle", input |-> <<>>, passes |-> <<>>,
     result |-> ContractValidationResult(NoResult, NoResult, NoResult),
     outcome |-> Returned(<<>>), logged |-> <<>>]

\* A call of ContractLoader.load on a file.
LoadCall(contract_file) ==
    [ContractIdle EXCEPT !.caller = "load", !.pc = "call", !.input = contract_file]

\* A call of ContractValidator.validate: by itself ("validate"), from
\* validate_and_report, or from BruinQualityRunner._run_contract_check, which
\* always asks for the SLA.
ValidateCall(caller, input) ==
    [ContractIdle EXCEPT !.caller = caller, !.pc = "load", !.input = input]

\* ContractLoader.load, called by itself.
LoaderLoad ==
    /\ contract_run.caller = "load" /\ contract_run.pc = "call"
    /\ LET r == load(contract_run.input) IN
       contract_run' = [contract_run EXCEPT
           !.pc = IF r.ok THEN "returned" ELSE "raised", !.outcome = r]
    /\ UNCHANGED notContract

\* ContractValidator.validate: contract = self.loader.load(contract_name)
ValidateLoad ==
    /\ contract_run.caller # "load" /\ contract_run.pc = "load"
    /\ LET r == load(contract_run.input.contract_file) IN
       contract_run' = [contract_run EXCEPT
           !.pc = IF r.ok THEN "view" ELSE "raising", !.outcome = r]
    /\ UNCHANGED notContract

\* ContractValidator.validate: the view over read_parquet(data_path) and the
\* count of its rows; the view cannot be made of a file that is not there.
ValidateView ==
    /\ contract_run.pc = "view"
    /\ contract_run' =
          IF contract_run.input.data_file.some
          THEN [contract_run EXCEPT !.pc = "schema"]
          ELSE [contract_run EXCEPT
                   !.pc = "raising",
                   !.outcome = Raised("IOException", "No files found", <<>>)]
    /\ UNCHANGED notContract

\* The column checks of the schema validator run a query: DESCRIBE worked
\* and the dataset has a column of the contract that has constraints.
RunsColumnQuery(s) ==
    /\ s.describe = "ok"
    /\ \E i \in 1..Len(s.columns) :
          /\ s.columns[i].name \in s.actual
          /\ s.columns[i].not_null \/ s.columns[i].unique
                \/ s.columns[i].violation \/ s.columns[i].pattern

\* The schema pass after which a failed schema result ends the run.
ValidateSchemaShortCircuits ==
    /\ contract_run.pc = "schema"
    /\ LET input == contract_run.input
           r == SchemaValidate(input.schema)
       IN  contract_run' =
              IF input.column_check = "raises" /\ RunsColumnQuery(input.schema)
              THEN [contract_run EXCEPT
                       !.pc = "raising",
                       !.passes = Append(@, "schema"),
                       !.outcome = Raised("ConversionException", "column check", <<>>)]
              ELSE [contract_run EXCEPT
                       !.pc = IF r.passed THEN "quality" ELSE "result",
                       !.passes = Append(@, "schema"),
                       !.result.schema_result = Result(r)]
    /\ UNCHANGED notContract

\* ContractValidator.validate: schema_result = schema_validator.validate(con,
\* dataset_name). The queries of _validate_column are in no try block: one
\* that fails ends validate with its exception.
ValidateSchema ==
    /\ contract_run.pc = "schema"
    /\ LET input == contract_run.input
           r == SchemaValidate(input.schema)
       IN  contract_run' =
              IF input.column_check = "raises" /\ RunsColumnQuery(input.schema)
              THEN [contract_run EXCEPT
                       !.pc = "raising",
                       !.passes = Append(@, "schema"),
                       !.outcome = Raised("ConversionException", "column check", <<>>)]
              ELSE [contract_run EXCEPT
                       !.pc = "quality",
                       !.passes = Append(@, "schema"),
                       !.result.schema_result = Result(r)]
    /\ UNCHANGED notContract

\* ContractValidator.validate: quality_result = quality_validator.validate(
\* con, dataset_name); the SLA pass comes next if validate_sla.
ValidateQuality ==
    /\ contract_run.pc = "quality"
    /\ contract_run' = [contract_run EXCEPT
          !.pc = IF contract_run.input.validate_sla THEN "sla" ELSE "result",
          !.passes = Append(@, "quality"),
          !.result.quality_result = Result(QualityValidate(contract_run.input.rules))]
    /\ UNCHANGED notContract

\* The input of the SLA pass: the sla sections of the contract, data_path,
\* and row_count, the COUNT(*) of the view.
RunSLAInput(input) ==
    [freshness |-> input.freshness, completeness |-> input.completeness,
     file |-> input.data_file, row_count |-> Len(input.schema.values)]

\* ContractValidator.validate: sla_result = sla_validator.validate(data_path,
\* row_count)
ValidateSLA ==
    /\ contract_run.pc = "sla"
    /\ contract_run' = [contract_run EXCEPT
          !.pc = "result",
          !.passes = Append(@, "sla"),
          !.result.sla_result = Result(SLAValidate(RunSLAInput(contract_run.input)))]
    /\ UNCHANGED notContract

\* What a caller sees of a ContractValidationResult: the three results and
\* the values of its properties.
Seen(result) ==
    [result |-> result, passed |-> passed(result),
     all_errors |-> all_errors(result), all_warnings |-> all_warnings(result)]

\* ContractValidator.validate returns its result to a caller that asked for
\* nothing else, or ends with the exception of one of its steps.
ValidateReturns ==
    /\ contract_run.caller = "validate" /\ contract_run.pc \in {"result", "raising"}
    /\ contract_run' =
          IF contract_run.pc = "raising"
          THEN [contract_run EXCEPT !.pc = "raised"]
          ELSE [contract_run EXCEPT
                   !.pc = "returned", !.outcome = Returned(Seen(contract_run.result))]
    /\ UNCHANGED notContract

\* The errors a summary shows.
SummaryLimit == 3

\* The first n entries of a list.
Take(list, n) == SubSeq(list, 1, IF Len(list) < n THEN Len(list) ELSE n)

\* What a failure message says of the errors: the entries it quotes
\* (`first`), the number of its " ... and n more errors" part (`more`, 0 if
\* it has no such part) and the number of its ": n errors" part (`count`, 0
\* if it has no such part).
\* The error summary of _run_contract_check: "; ".join(all_errors[:3]), and
\* " ... and {len(all_errors) - 3} more errors" if there are more than 3.
Summary(errors) ==
    [first |-> Take(errors, SummaryLimit),
     more |-> IF Len(errors) > SummaryLimit THEN Len(errors) - SummaryLimit ELSE 0,
     count |-> 0]

\* The error_summary of validate_and_report:
\* f"Contract validation failed for {dataset}: {len(result.all_errors)} errors"
ErrorCount(errors) == [first |-> <<>>, more |-> 0, count |-> Len(errors)]

\* validate_and_report with the summary of _run_contract_check in the
\* exception it raises.
ValidateAndReportSummary ==
    /\ contract_run.caller = "validate_and_report"
    /\ contract_run.pc \in {"result", "raising"}
    /\ LET result == contract_run.result IN
       contract_run' =
          IF contract_run.pc = "raising"
          THEN [contract_run EXCEPT !.pc = "raised"]
          ELSE IF passed(result)
          THEN [contract_run EXCEPT !.pc = "returned", !.outcome = Returned(TRUE)]
          ELSE [contract_run EXCEPT
                   !.pc = "raised",
                   !.logged = all_errors(result),
                   !.outcome = Raised("RuntimeError", "Contract validation failed",
                                      Summary(all_errors(result)))]
    /\ UNCHANGED notContract

\* ContractValidator.validate_and_report: an exception of validate goes on
\* to the caller; a result that passed gives True; one that failed is
\* logged with all its errors and RuntimeError is raised, its message giving
\* the dataset and the number of errors.
ValidateAndReport ==
    /\ contract_run.caller = "validate_and_report"
    /\ contract_run.pc \in {"result", "raising"}
    /\ LET result == contract_run.result IN
       contract_run' =
          IF contract_run.pc = "raising"
          THEN [contract_run EXCEPT !.pc = "raised"]
          ELSE IF passed(result)
          THEN [contract_run EXCEPT !.pc = "returned", !.outcome = Returned(TRUE)]
          ELSE [contract_run EXCEPT
                   !.pc = "raised",
                   !.logged = all_errors(result),
                   !.outcome = Raised("RuntimeError", "Contract validation failed",
                                      ErrorCount(all_errors(result)))]
    /\ UNCHANGED notContract

\* QualityCheckResult
QualityCheckResult(name, ok, message) == [name |-> name, passed |-> ok, message |-> message]

\* BruinQualityRunner._run_contract_check: an exception of validate is
\* caught and gives a failed check; a result that passed gives a passed
\* check; one that failed gives a failed check whose message is the summary
\* of its errors.
RunContractCheck ==
    /\ contract_run.caller = "_run_contract_check"
    /\ contract_run.pc \in {"result", "raising"}
    /\ LET result == contract_run.result IN
       contract_run' =
          IF contract_run.pc = "raising"
          THEN [contract_run EXCEPT
                   !.pc = "returned",
                   !.outcome = Returned(QualityCheckResult("contract", FALSE,
                                   <<"Error validating contract", contract_run.outcome.error>>))]
          ELSE IF passed(result)
          THEN [contract_run EXCEPT
                   !.pc = "returned",
                   !.outcome = Returned(QualityCheckResult("contract", TRUE,
                                   <<"Contract validation passed">>))]
          ELSE [contract_run EXCEPT
                   !.pc = "returned",
                   !.outcome = Returned(QualityCheckResult("contract", FALSE,
                                   Summary(all_errors(result))))]
    /\ UNCHANGED notContract

\* ---------------------------------------------------------------- distributed mode (driver and executor functions, storage queue)

\* COMBOI_START_STAGE as the timer function reads it (os.getenv gives a string).
TriggerInputs ==
    {Some(Chars("all")), Some(<<>>), Some(<<"S", "i", "l", "v", "e", "r">>),
     Some(<<"G", "O", "L", "D">>), Some(<<"D">>), Some(<<"A", "L", "L">>)}

\* COMBOI_CONFIG as the timer function reads it.
ConfigInputs == {"configs/default.yml", "./configs/default.yml"}

\* str(Path(p)) on the inputs above: pathlib drops a leading "./".
PathStr(p) == IF p = "./configs/default.yml" THEN "configs/default.yml" ELSE p

\* A message sent to the storage queue: the JSON payload (config_path, stage,
\* remaining), the queue's own state (status, dequeue_count: the pop receipt
\* changes with every dequeue), and the executor invocation that sent it
\* (parent, Timer for the timer function).
Message(config_path, stage, remaining, parent) ==
    [config_path |-> config_path, stage |-> stage, remaining |-> remaining,
     parent |-> parent, status |-> "visible", dequeue_count |-> 0]

\* AzureTaskQueue.enqueue
Enqueue(queue, message) == Append(queue, message)

\* The timer is no executor invocation.
Timer == <<0, 0, 0>>

\* messages[r] holds the messages sent for the r-th timer firing, in sending
\* order; a message is named m = <<r, i>>.
MessageIds == UNION {{<<r, i>> : i \in 1..Len(messages[r])} : r \in 1..Len(messages)}

\* The record of message m.
Msg(m) == messages[m[1]][m[2]]

\* An executor invocation is named by its message and the number of the
\* delivery that started it, w = <<r, i, k>>; workers[r][i][k] is where it is:
\* "run_stage" (in driver.run_stage), "completed" (main returned), "raised"
\* (run_stage raised), "crashed_enqueue" (died after run_stage returned),
\* "crashed_return" (died after _enqueue_next).
WorkerIds ==
    UNION {{<<m[1], m[2], k>> : k \in 1..Len(workers[m[1]][m[2]])} : m \in MessageIds}

\* Where invocation w is.
Pc(w) == workers[w[1]][w[2]][w[3]]

\* The payload invocation w parsed.
Payload(w) == messages[w[1]][w[2]]

\* Invocation w is in driver.run_stage.
Running(w) == Pc(w) = "run_stage"

\* driver.run_stage returned in invocation w.
StageSucceeded(w) == Pc(w) \in {"completed", "crashed_enqueue", "crashed_return"}

\* Invocation w sent a continuation message.
SentNext(w) == Pc(w) \in {"completed", "crashed_return"} /\ Payload(w).remaining # <<>>

\* Message m is held by a running invocation that has its current pop receipt.
Held(m) ==
    /\ Msg(m).dequeue_count \in 1..Len(workers[m[1]][m[2]])
    /\ Running(<<m[1], m[2], Msg(m).dequeue_count>>)

\* The host acknowledges the message of invocation w with the pop receipt of
\* its delivery (AzureTaskQueue.delete); the queue refuses a receipt that is
\* not the current one.
Delete(queue, w) ==
    IF queue[w[2]].status # "deleted" /\ queue[w[2]].dequeue_count = w[3]
    THEN [queue EXCEPT ![w[2]].status = "deleted"]
    ELSE queue

\* driver/__init__.py main, with remaining = stages instead of stages[1:].
TimerTriggerKeepsStage(selected, config) ==
    /\ EventAllowed
    /\ LET r == execution_order(selected) IN
       /\ runs' = Append(runs, [selected |-> selected, ok |-> r.ok,
                                stages |-> r.value, error |-> r.error])
       /\ IF r.ok /\ r.value # <<>>
          THEN /\ messages' = Append(messages,
                                     Enqueue(<<>>, Message(PathStr(config), r.value[1],
                                                           r.value, Timer)))
               /\ workers' = Append(workers, << <<>> >>)
          ELSE /\ messages' = Append(messages, <<>>)
               /\ workers' = Append(workers, <<>>)
    /\ UNCHANGED <<faults, hangs, calls, notDist>>

\* driver/__init__.py main: the timer-triggered function.
TimerTrigger(selected, config) ==
    /\ EventAllowed
    /\ LET r == execution_order(selected) IN
       /\ runs' = Append(runs, [selected |-> selected, ok |-> r.ok,
                                stages |-> r.value, error |-> r.error])
       /\ IF r.ok /\ r.value # <<>>
          THEN /\ messages' = Append(messages,
                                     Enqueue(<<>>, Message(PathStr(config), r.value[1],
                                                           Tail(r.value), Timer)))
               /\ workers' = Append(workers, << <<>> >>)
          ELSE /\ messages' = Append(messages, <<>>)
               /\ workers' = Append(workers, <<>>)
    /\ UNCHANGED <<faults, hangs, calls, notDist>>

\* A queue that hands out a message that is hidden or deleted as well.
ReceiveHidden(m) ==
    /\ run_stage(Msg(m).stage).ok \/ Msg(m).dequeue_count < MaxDeliveries
    /\ Msg(m).dequeue_count < MaxDeliveries
    /\ messages' = [messages EXCEPT ![m[1]][m[2]].status = "invisible",
                                    ![m[1]][m[2]].dequeue_count = @ + 1]
    /\ workers' = [workers EXCEPT ![m[1]][m[2]] = Append(@, "run_stage")]
    /\ UNCHANGED <<runs, faults, hangs, calls, notDist>>

\* The queue hands visible message m to a new executor invocation and hides it
\* for the visibility timeout (AzureTaskQueue.receive); executor main parses
\* the payload, builds the driver and calls driver.run_stage(stage).
Receive(m) ==
    /\ Msg(m).status = "visible"
    /\ run_stage(Msg(m).stage).ok \/ Msg(m).dequeue_count < MaxDeliveries
    /\ messages' = [messages EXCEPT ![m[1]][m[2]].status = "invisible",
                                    ![m[1]][m[2]].dequeue_count = @ + 1]
    /\ workers' = [workers EXCEPT ![m[1]][m[2]] = Append(@, "run_stage")]
    /\ UNCHANGED <<runs, faults, hangs, calls, notDist>>

\* The queue message executor main sends, with the last of the remaining
\* stages taken as the next one.
NextPayloadTakesLast(w) ==
    Message(PathStr(Payload(w).config_path),
            Payload(w).remaining[Len(Payload(w).remaining)], <<>>, w)

\* The queue message executor main sends, with remaining sent on whole.
NextPayloadKeepsStage(w) ==
    Message(PathStr(Payload(w).config_path),
            Payload(w).remaining[1], Payload(w).remaining, w)

\* The queue message executor main sends, with the default of COMBOI_CONFIG
\* as its config_path instead of the path of the message consumed.
NextPayloadDefaultConfig(w) ==
    Message("configs/default.yml",
            Payload(w).remaining[1], Tail(Payload(w).remaining), w)

\* _enqueue_next: the payload for remaining[0], with remaining[1:].
NextPayload(w) ==
    Message(PathStr(Payload(w).config_path),
            Payload(w).remaining[1], Tail(Payload(w).remaining), w)

\* An invocation end that never sends the next message.
EndInvocationNeverSends(w, pc, send, ack) ==
    /\ messages' = [messages EXCEPT ![w[1]] = IF ack THEN Delete(@, w) ELSE @]
    /\ workers' = [workers EXCEPT ![w[1]][w[2]][w[3]] = pc]

\* Invocation w ends at `pc`, having sent the next message if `send`, and
\* having acknowledged its own if `ack`.
EndInvocation(w, pc, send, ack) ==
    /\ messages' =
          [messages EXCEPT ![w[1]] =
              LET sent == IF send THEN Enqueue(@, NextPayload(w)) ELSE @
              IN  IF ack THEN Delete(sent, w) ELSE sent]
    /\ workers' =
          [workers EXCEPT ![w[1]] =
              LET ended == [@ EXCEPT ![w[2]][w[3]] = pc]
              IN  IF send THEN Append(ended, <<>>) ELSE ended]

\* executor main in which a failure of run_stage is swallowed: the
\* continuation is sent and the message acknowledged all the same.
RunStageRaisesAndGoesOn(w) ==
    /\ Running(w)
    /\ run_stage(Payload(w).stage).ok
    /\ EventAllowed
    /\ faults' = faults + 1
    /\ calls' = calls \cup {<<w, run_stage(Payload(w).stage).value>>}
    /\ EndInvocation(w, "raised", Payload(w).remaining # <<>>, TRUE)
    /\ UNCHANGED <<runs, hangs, notDist>>

\* executor main in which a failure of run_stage ends the invocation
\* normally: nothing is sent, and the host acknowledges the message.
RunStageRaisesAndAcks(w) ==
    /\ Running(w)
    /\ run_stage(Payload(w).stage).ok
    /\ EventAllowed
    /\ faults' = faults + 1
    /\ calls' = calls \cup {<<w, run_stage(Payload(w).stage).value>>}
    /\ EndInvocation(w, "raised", FALSE, TRUE)
    /\ UNCHANGED <<runs, hangs, notDist>>

\* executor main: driver.run_stage(stage) raises, because no task is bound
\* to the name (no task is called, and it happens on every delivery) or
\* because the task it called failed or the process died in it (an event of
\* the environment); the exception leaves main, nothing is sent and the
\* message is not acknowledged.
RunStageRaises(w) ==
    LET r == run_stage(Payload(w).stage) IN
    /\ Running(w)
    /\ r.ok => EventAllowed
    /\ faults' = IF r.ok THEN faults + 1 ELSE faults
    /\ calls' = IF r.ok THEN calls \cup {<<w, r.value>>} ELSE calls
    /\ EndInvocation(w, IF r.ok THEN "raised" ELSE "unregistered", FALSE, FALSE)
    /\ UNCHANGED <<runs, hangs, notDist>>

\* executor main: driver.run_stage(stage) calls the task and returns; if
\* stages remain, _enqueue_next sends the next message; main returns and the
\* host acknowledges the message of this delivery.
RunStageReturns(w) ==
    LET r == run_stage(Payload(w).stage) IN
    /\ Running(w)
    /\ r.ok
    /\ calls' = calls \cup {<<w, r.value>>}
    /\ EndInvocation(w, "completed", Payload(w).remaining # <<>>, TRUE)
    /\ UNCHANGED <<runs, faults, hangs, notDist>>

\* The process of a running invocation dies after run_stage returned and
\* nothing is acknowledged: at `point` "enqueue" before the next message is
\* sent, at "return" after it was sent.
Crash(w, point) ==
    LET r == run_stage(Payload(w).stage) IN
    /\ Running(w)
    /\ r.ok
    /\ EventAllowed
    /\ faults' = faults + 1
    /\ calls' = calls \cup {<<w, r.value>>}
    /\ IF point = "return"
       THEN EndInvocation(w, "crashed_return", Payload(w).remaining # <<>>, FALSE)
       ELSE EndInvocation(w, "crashed_enqueue", FALSE, FALSE)
    /\ UNCHANGED <<runs, hangs, notDist>>

\* The visibility timeout of a received message expires and the message is
\* visible again; the invocation that received it may still be running.
VisibilityTimeout(m) ==
    /\ Msg(m).status = "invisible"
    /\ Held(m) => EventAllowed
    /\ hangs' = IF Held(m) THEN hangs + 1 ELSE hangs
    /\ messages' = [messages EXCEPT ![m[1]][m[2]].status = "visible"]
    /\ UNCHANGED <<runs, workers, faults, calls, notDist>>

Init ==
    /\ runs = <<>> /\ messages = <<>> /\ workers = <<>>
    /\ faults = 0 /\ hangs = 0 /\ calls = {}
    /\ cli = CliIdle
    /\ CkIdle /\ ExIdle /\ validation = ValidationIdle /\ contract_run = ContractIdle

Next ==
    \/ \E selected \in TriggerInputs, config \in ConfigInputs : TimerTrigger(selected, config)
    \/ \E m \in MessageIds : Receive(m)
    \/ \E w \in WorkerIds : RunStageReturns(w)
    \/ \E w \in WorkerIds : RunStageRaises(w)
    \/ \E w \in WorkerIds, point \in {"enqueue", "return"} : Crash(w, point)
    \/ \E m \in MessageIds : VisibilityTimeout(m)

Spec == Init /\ [][Next]_vars

\* COMBOI_CONFIG of timer firings that start whole chains on different
\* configurations.
ChainConfigInputs == ConfigInputs \cup {"configs/other.yml"}

\* The distributed mode with every firing of the timer starting the whole
\* chain, on one of several configurations.
NextChain ==
    \/ \E config \in ChainConfigInputs : TimerTrigger(Some(Chars("all")), config)
    \/ \E m \in MessageIds : Receive(m)
    \/ \E w \in WorkerIds : RunStageReturns(w)
    \/ \E w \in WorkerIds : RunStageRaises(w)
    \/ \E w \in WorkerIds, point \in {"enqueue", "return"} : Crash(w, point)
    \/ \E m \in MessageIds : VisibilityTimeout(m)

SpecChain == Init /\ [][NextChain]_vars

\* The queue and the host are fair to what the code leaves enabled: a visible
\* message is delivered, a running invocation whose task returns goes on to
\* its end, and the visibility timeout of a message nobody holds runs out.
\* Task failures, crashes and timeouts under a running invocation are not
\* forced.
Fairness ==
    /\ WF_vars(\E m \in MessageIds : Receive(m))
    /\ WF_vars(\E w \in WorkerIds : RunStageReturns(w))
    /\ WF_vars(\E m \in MessageIds : ~Held(m) /\ VisibilityTimeout(m))

FairSpec == Init /\ [][Next]_vars /\ Fairness

InitCli ==
    /\ runs = <<>> /\ messages = <<>> /\ workers = <<>>
    /\ faults = 0 /\ hangs = 0 /\ calls = {}
    /\ cli \in {CliCommand(c, s) : c \in {"run", "plan"}, s \in CliInputs}
    /\ CkIdle /\ ExIdle /\ validation = ValidationIdle /\ contract_run = ContractIdle

NextCli ==
    \/ CliPlan
    \/ CliRunStart
    \/ ExecutorTaskReturns
    \/ ExecutorTaskRaises
    \/ ExecutorReturns

SpecCli == InitCli /\ [][NextCli]_vars

\* The sender of a message that neither the timer function nor an executor
\* invocation sent.
Outside == <<0, 0, 1>>

\* Stage names a queue message may carry: executor main takes payload["stage"]
\* as it is.
StageInputs == {"bronze", "gold", "Gold", "platinum"}

\* Remaining lists a queue message may carry.
RemainingInputs == {<<>>, <<"Gold">>}

\* The executor function alone, with one message on its queue.
InitWorker ==
    /\ runs = <<>>
    /\ \E stage \in StageInputs, remaining \in RemainingInputs :
          messages = << Enqueue(<<>>, Message("configs/default.yml", stage, remaining, Outside)) >>
    /\ workers = << << <<>> >> >>
    /\ faults = 0 /\ hangs = 0 /\ calls = {}
    /\ cli = CliIdle
    /\ CkIdle /\ ExIdle /\ validation = ValidationIdle /\ contract_run = ContractIdle

NextWorker ==
    \/ \E m \in MessageIds : Receive(m)
    \/ \E w \in WorkerIds : RunStageReturns(w)
    \/ \E w \in WorkerIds : RunStageRaises(w)
    \/ \E w \in WorkerIds, point \in {"enqueue", "return"} : Crash(w, point)
    \/ \E m \in MessageIds : VisibilityTimeout(m)

SpecWorker == InitWorker /\ [][NextWorker]_vars

\* One thread at a time uses the checkpoint of a fresh directory; the
\* process may die in a write and start again.
InitCkSeq ==
    /\ runs = <<>> /\ messages = <<>> /\ workers = <<>>
    /\ faults = 0 /\ hangs = 0 /\ calls = {}
    /\ cli = CliIdle
    /\ CkFresh /\ threads = <<NewThread>>
    /\ ExIdle /\ validation = ValidationIdle /\ contract_run = ContractIdle

NextCkSeq ==
    \/ \E t \in DOMAIN threads : Construct(t)
    \/ \E t \in DOMAIN threads, key \in CkKeys, default \in DefaultInputs :
          Call(t, "get", key, PyValue("NoneType", "None"), default)
    \/ \E t \in DOMAIN threads, key \in CkKeys, value \in UpdateInputs :
          Call(t, "update", key, value, PyValue("NoneType", "None"))
    \/ \E t \in DOMAIN threads : Open(t)
    \/ \E t \in DOMAIN threads : DumpClose(t)
    \/ \E t \in DOMAIN threads : Replace(t)
    \/ \E t \in DOMAIN threads : CrashProcess(t)

SpecCkSeq == InitCkSeq /\ [][NextCkSeq]_vars

\* Two threads of one process use the checkpoint of a fresh directory.
InitCk ==
    /\ runs = <<>> /\ messages = <<>> /\ workers = <<>>
    /\ faults = 0 /\ hangs = 0 /\ calls = {}
    /\ cli = CliIdle
    /\ CkFresh /\ threads = <<NewThread, NewThread>>
    /\ ExIdle /\ validation = ValidationIdle /\ contract_run = ContractIdle

NextCk ==
    \/ \E t \in DOMAIN threads : Construct(t)
    \/ \E t \in DOMAIN threads, key \in CkKeys, default \in DefaultInputs :
          Call(t, "get", key, PyValue("NoneType", "None"), default)
    \/ \E t \in DOMAIN threads, key \in CkKeys, value \in UpdateInputs :
          Call(t, "update", key, value, PyValue("NoneType", "None"))
    \/ \E t \in DOMAIN threads : Open(t)
    \/ \E t \in DOMAIN threads : DumpClose(t)
    \/ \E t \in DOMAIN threads : Replace(t)

SpecCk == InitCk /\ [][NextCk]_vars

\* Two threads of one process use the checkpoint of a fresh directory, in
\* get, update and sessions whose body raises.
NextSession ==
    \/ NextCk
    \/ \E t \in DOMAIN threads : SessionRaises(t)

SpecSession == InitCk /\ [][NextSession]_vars

\* Two processes on one checkpoint path, each with one thread whose store is
\* constructed, the document being {}: thread 1 calls get, and thread 2, in
\* the other process, calls update.
InitProcesses ==
    /\ runs = <<>> /\ messages = <<>> /\ workers = <<>>
    /\ faults = 0 /\ hangs = 0 /\ calls = {}
    /\ cli = CliIdle
    /\ inodes = <<Document(DumpDict(EmptyData))>>
    /\ links = [path |-> 1, tmp |-> 0]
    /\ checkpoint_lock = 0
    /\ journal = [NewJournal EXCEPT !.committed = Document(DumpDict(EmptyData))]
    /\ threads = <<[NewThread EXCEPT !.pc = "idle"], [NewThread EXCEPT !.pc = "idle"]>>
    /\ ExIdle /\ validation = ValidationIdle /\ contract_run = ContractIdle

NextProcesses ==
    \/ \E key \in CkKeys, default \in DefaultInputs :
          Call(1, "get", key, PyValue("NoneType", "None"), default)
    \/ \E key \in CkKeys, value \in UpdateInputs :
          CallElsewhere(2, "update", key, value, PyValue("NoneType", "None"))
    \/ \E t \in DOMAIN threads : Open(t)
    \/ \E t \in DOMAIN threads : DumpClose(t)
    \/ \E t \in DOMAIN threads : Replace(t)

SpecProcesses == InitProcesses /\ [][NextProcesses]_vars

\* Calls of export_table for one table and checkpoint key, one after the
\* other or under way at once (as the bronze executions of two deliveries of
\* one message are), while rows arrive in the source.
InitExtract ==
    /\ runs = <<>> /\ messages = <<>> /\ workers = <<>>
    /\ faults = 0 /\ hangs = 0 /\ calls = {}
    /\ cli = CliIdle
    /\ CkIdle
    /\ source = {} /\ watermark = Nothing /\ written = <<>> /\ uploads = <<>>
    /\ extractions = <<NewExtraction, NewExtraction, NewExtraction>>
    /\ validation = ValidationIdle /\ contract_run = ContractIdle

NextExtract ==
    \/ \E e \in DOMAIN extractions : ExportGet(e)
    \/ \E e \in DOMAIN extractions : ExportCopy(e)
    \/ \E e \in DOMAIN extractions : ExportMax(e)
    \/ \E e \in DOMAIN extractions : ExportUpdate(e)
    \/ \E v \in SourceValues : InsertRow(v)

SpecExtract == InitExtract /\ [][NextExtract]_vars

\* One call of a validator of a contract.
InitValidate ==
    /\ runs = <<>> /\ messages = <<>> /\ workers = <<>>
    /\ faults = 0 /\ hangs = 0 /\ calls = {}
    /\ cli = CliIdle
    /\ CkIdle /\ ExIdle /\ contract_run = ContractIdle
    /\ \/ \E s \in SchemaInputs : validation = ValidationCall("schema", s)
       \/ \E rules \in RuleLists(MaxRules) : validation = ValidationCall("quality", rules)
       \/ \E s \in SLAInputs : validation = ValidationCall("sla", s)

NextValidate ==
    \/ SchemaValidatorValidate
    \/ QualityValidatorValidate
    \/ SLAValidatorValidate

SpecValidate == InitValidate /\ [][NextValidate]_vars

\* One call of ContractLoader.load on a contract file.
InitLoad ==
    /\ runs = <<>> /\ messages = <<>> /\ workers = <<>>
    /\ faults = 0 /\ hangs = 0 /\ calls = {}
    /\ cli = CliIdle
    /\ CkIdle /\ ExIdle /\ validation = ValidationIdle
    /\ \E contract_file \in ContractFiles : contract_run = LoadCall(contract_file)

NextLoad == LoaderLoad

SpecLoad == InitLoad /\ [][NextLoad]_vars

\* One call of ContractValidator.validate, by itself or from one of its two
\* callers.
InitContract ==
    /\ runs = <<>> /\ messages = <<>> /\ workers = <<>>
    /\ faults = 0 /\ hangs = 0 /\ calls = {}
    /\ cli = CliIdle
    /\ CkIdle /\ ExIdle /\ validation = ValidationIdle
    /\ \E input \in RunInputs :
          \/ contract_run = ValidateCall("validate", input)
          \/ contract_run = ValidateCall("validate_and_report", input)
          \/ input.validate_sla /\ contract_run = ValidateCall("_run_contract_check", input)

NextContract ==
    \/ ValidateLoad
    \/ ValidateView
    \/ ValidateSchema
    \/ ValidateQuality
    \/ ValidateSLA
    \/ ValidateReturns
    \/ ValidateAndReport
    \/ RunContractCheck

SpecContract == InitContract /\ [][NextContract]_vars

\* Executions of the bronze stage for one table, one after the other, while
\* rows arrive in the source.
InitBronze ==
    /\ runs = <<>> /\ messages = <<>> /\ workers = <<>>
    /\ faults = 0 /\ hangs = 0 /\ calls = {}
    /\ cli = CliIdle
    /\ CkIdle
    /\ source = {} /\ watermark = Nothing /\ written = <<>> /\ uploads = <<>>
    /\ extractions = <<NewExtraction, NewExtraction>>
    /\ validation = ValidationIdle /\ contract_run = ContractIdle

NextBronze ==
    \/ \E e \in DOMAIN extractions : BronzeExport(e)
    \/ \E e \in DOMAIN extractions : ExportCopy(e)
    \/ \E e \in DOMAIN extractions : ExportMax(e)
    \/ \E e \in DOMAIN extractions : ExportUpdate(e)
    \/ \E e \in DOMAIN extractions : ExportFails(e)
    \/ \E e \in DOMAIN extractions : Upload(e)
    \/ \E e \in DOMAIN extractions : UploadFails(e)
    \/ \E v \in SourceValues : InsertRow(v)

SpecBronze == InitBronze /\ [][NextBronze]_vars

\* ---------------------------------------------------------------- properties

\* The payloads sent for run r, in sending order.
Enqueued(r) ==
    [i \in 1..Len(messages[r]) |->
        [stage |-> messages[r][i].stage, remaining |-> messages[r][i].remaining]]

\* s is a prefix of t.
IsPrefix(s, t) == Len(s) <= Len(t) /\ \A i \in 1..Len(s) : s[i] = t[i]

\* The chain of payloads for the stages A, B, C of the spec.
FullChain ==
    << [stage |-> "bronze", remaining |-> <<"silver", "gold">>],
       [stage |-> "silver", remaining |-> <<"gold">>],
       [stage |-> "gold", remaining |-> <<>>] >>

\* The invocations of run r.
WorkersOf(r) == {w \in WorkerIds : w[1] = r}

\* The invocations of run r that execute stage s.
StageWorkers(r, s) == {w \in WorkersOf(r) : Payload(w).stage = s}

\* No run_stage call of run r has raised.
NoTaskRaised(r) == \A w \in WorkersOf(r) : Pc(w) # "raised"

\* No message of run r has been delivered more than once.
DeliveredOnce(r) == \A i \in 1..Len(messages[r]) : messages[r][i].dequeue_count <= 1

\* The stage before s in the fixed order ("none" for the first).
Before(s) ==
    CASE s = "silver" -> "bronze"
      [] s = "gold" -> "silver"
      [] OTHER -> "none"

C2_StageOrder ==
    /\ \A m \in MessageIds :
          Msg(m).parent # Timer =>
              /\ Msg(m).parent \in WorkersOf(m[1])
              /\ StageSucceeded(Msg(m).parent)
              /\ Payload(Msg(m).parent).stage = Before(Msg(m).stage)
    /\ \A w \in WorkerIds :
          Payload(w).stage # runs[w[1]].stages[1] =>
              \E v \in StageWorkers(w[1], Before(Payload(w).stage)) : StageSucceeded(v)

\* C2 witness: gold is executing in a run that started at bronze.
C2_Witness ==
    \E w \in WorkerIds :
        /\ Running(w) /\ Payload(w).stage = "gold"
        /\ runs[w[1]].stages = order
        /\ \E v \in StageWorkers(w[1], "silver") : StageSucceeded(v)

\* The delivery of message m that invocation w got has been acknowledged.
Acknowledged(w) == Payload(w).status = "deleted" /\ Payload(w).dequeue_count = w[3]

\* C3: an invocation whose run_stage raised has sent no message and has not
\* acknowledged its own (the failure went to the host); and as long as no
\* silver task of a run has returned, no worker has sent a gold message in it.
C3_NoContinuationOnRaise ==
    /\ \A w \in WorkerIds :
          Pc(w) = "raised" =>
              /\ \A m \in MessageIds : Msg(m).parent # w
              /\ ~Acknowledged(w)
    /\ \A r \in 1..Len(runs) :
          (\A w \in StageWorkers(r, "silver") : ~StageSucceeded(w)) =>
              \A i \in 1..Len(messages[r]) :
                  messages[r][i].stage = "gold" => messages[r][i].parent = Timer

\* C3 witness: a silver task has raised and there is no gold message.
C3_Witness ==
    \E w \in WorkerIds :
        /\ Pc(w) = "raised" /\ Payload(w).stage = "silver"
        /\ \A i \in 1..Len(messages[w[1]]) : messages[w[1]][i].stage # "gold"

\* list is order[k:] for some k.
IsSuffixOfOrder(list) == \E k \in 1..Len(order) : list = SubSeq(order, k, Len(order))

\* C4: every message sent has a stage of the enumeration, and the stage
\* followed by its remaining list is a contiguous suffix of the fixed order.
C4_WellFormed ==
    \A m \in MessageIds :
        /\ Msg(m).stage \in {"bronze", "silver", "gold"}
        /\ IsSuffixOfOrder(<<Msg(m).stage>> \o Msg(m).remaining)

\* C4 witness: a worker has sent the message of the last stage.
C4_Witness ==
    \E m \in MessageIds :
        Msg(m).parent # Timer /\ Msg(m).stage = "gold" /\ Msg(m).remaining = <<>>

\* Stage s of run r has a message.
StageQueued(r, s) == \E i \in 1..Len(messages[r]) : messages[r][i].stage = s

\* Stage s of run r has been executed successfully and its continuation, if
\* stages remain, has been sent.
StageDone(r, s) ==
    \E w \in StageWorkers(r, s) :
        StageSucceeded(w) /\ (Payload(w).remaining = <<>> \/ SentNext(w))

\* C5: under the fairness of the queue and the host, every stage that has a
\* message is in the end executed successfully with its continuation sent,
\* whatever failures, crashes and redeliveries come first (a message, once
\* sent, and a success, once had, stay in the history, so "in the end, for
\* good" is "eventually" for each of them).
C5_RecoveryByRedelivery ==
    <>[](\A r \in 1..Len(runs) : \A s \in TaskNames :
            StageQueued(r, s) => StageDone(r, s))

\* C5 witness: a stage whose first execution raised has succeeded on a later
\* delivery of the same message and sent its continuation.
C5_Witness ==
    \E w \in WorkerIds :
        /\ Pc(w) = "raised"
        /\ \E v \in WorkerIds :
              /\ v[1] = w[1] /\ v[2] = w[2] /\ v[3] > w[3]
              /\ StageSucceeded(v) /\ SentNext(v)

\* C6 as stated: at any time at most one invocation is executing a given
\* stage of a given run of the pipeline.
C6_SingleWorkerPerStage ==
    \A w \in WorkerIds : \A v \in WorkerIds :
        /\ Running(w) /\ Running(v)
        /\ w[1] = v[1] /\ Payload(w).stage = Payload(v).stage
        => w = v

\* Run r has not been disturbed: no task raised, no process died, no message
\* was delivered twice.
Clean(r) ==
    /\ DeliveredOnce(r)
    /\ \A w \in WorkersOf(r) : Pc(w) \in {"run_stage", "completed"}

\* The payloads of the chain for the stages `stages`.
Chain(stages) ==
    [i \in 1..Len(stages) |->
        [stage |-> stages[i], remaining |-> SubSeq(stages, i + 1, Len(stages))]]

\* Run r has ended: one message per stage of its order, each executed by one
\* invocation that completed and acknowledged it.
Finished(r) ==
    /\ Enqueued(r) = Chain(runs[r].stages)
    /\ \A i \in 1..Len(messages[r]) :
          /\ messages[r][i].status = "deleted"
          /\ workers[r][i] = <<"completed">>

\* C7: a run started at any stage that is not disturbed sends at most the
\* messages of its chain, in order; under the fairness of the queue and the
\* host it ends with every stage of its order executed exactly once and the
\* last message having no remaining stage; and once ended, nothing more is
\* sent for it.
C7_Completion ==
    /\ [](\A r \in 1..Len(runs) :
             runs[r].ok /\ Clean(r) => IsPrefix(Enqueued(r), Chain(runs[r].stages)))
    /\ <>[](\A r \in 1..Len(runs) : runs[r].ok /\ Clean(r) => Finished(r))
    /\ [][\A r \in 1..Len(runs) :
             runs[r].ok /\ Clean(r) /\ Finished(r) => messages'[r] = messages[r]]_vars

\* C7 witness: an undisturbed run that started at silver has ended.
C7_Witness ==
    \E r \in 1..Len(runs) :
        /\ runs[r].ok /\ runs[r].stages = <<"silver", "gold">>
        /\ Clean(r) /\ Finished(r)
        /\ messages[r][Len(messages[r])].remaining = <<>>

\* The selected name is a spelling of stage order[k].
Spells(selected, k) == selected.some /\ selected.s \in CaseVariants(Chars(order[k]))

\* C8: for a stage name in any letter case execution_order and plan return
\* the suffix of the fixed order that starts at that stage, and for no name
\* and for "all" they return the whole order.
C8_SuffixOfOrder ==
    cli.pc \in {"loop", "done", "failed"} =>
        /\ Spells(cli.selected, 1) => cli.stages = <<"bronze", "silver", "gold">>
        /\ Spells(cli.selected, 2) => cli.stages = <<"silver", "gold">>
        /\ Spells(cli.selected, 3) => cli.stages = <<"gold">>
        /\ cli.selected = None \/ cli.selected = Some(<<"a", "l", "l">>)
              => cli.stages = <<"bronze", "silver", "gold">>

\* C8 witness: plan has answered for a mixed-case spelling of silver.
C8_Witness ==
    /\ cli.cmd = "plan" /\ cli.pc = "done"
    /\ cli.selected = Some(<<"S", "i", "L", "v", "E", "r">>)
    /\ cli.stages = <<"silver", "gold">>

\* The selected name is, in some letter case, a stage of the enumeration.
NamesStage(selected) == \E k \in 1..Len(order) : Spells(selected, k)

\* C9: when the timer function is given a name outside the enumeration,
\* execution_order raises the unknown-stage error with that name as given,
\* returns no list, and no message is sent.
C9_UnknownStage ==
    \A r \in 1..Len(runs) :
        LET selected == runs[r].selected IN
        Truthy(selected) /\ selected.s # <<"a", "l", "l">> /\ ~NamesStage(selected) =>
            /\ ~runs[r].ok
            /\ runs[r].error = <<"ValueError", "Unknown stage ", selected.s>>
            /\ runs[r].stages = <<>>
            /\ messages[r] = <<>>

\* C9 witness: the timer fired with the name "D".
C9_Witness ==
    \E r \in 1..Len(runs) : runs[r].selected = Some(<<"D">>) /\ ~runs[r].ok

\* C10: run calls the tasks of the order one after the other, each at most
\* once; a task that raises ends the run with that failure and no later task
\* is called; when none raises the result maps every stage of the order to
\* the summary its task returned.
C10_RunInOrder ==
    cli.cmd = "run" =>
        /\ IsPrefix(cli.invoked, cli.stages)
        /\ cli.raisedAt > 0 =>
              /\ cli.pc = "failed"
              /\ Len(cli.invoked) = cli.raisedAt
              /\ cli.error[1] = "TaskError"
        /\ cli.pc = "done" =>
              /\ cli.raisedAt = 0
              /\ cli.invoked = cli.stages
              /\ DOMAIN cli.results = {cli.stages[i] : i \in 1..Len(cli.stages)}
              /\ \A i \in 1..Len(cli.stages) : cli.results[cli.stages[i]] = cli.returned[i]

\* C10 witness: in a run of the whole order the silver task raised and the
\* gold task was not called.
C10_Witness ==
    /\ cli.cmd = "run" /\ cli.pc = "failed" /\ cli.raisedAt = 2
    /\ cli.stages = order /\ cli.invoked = <<"bronze", "silver">>

\* The tasks invocation w has called.
CalledBy(w) == {c[2] : c \in {d \in calls : d[1] = w}}

\* Invocation w has left run_stage after the task it called ended.
TaskEnded(w) == Pc(w) \in {"raised", "completed", "crashed_enqueue", "crashed_return"}

\* C11: an invocation's run_stage calls no task but the one bound to the
\* stage of its message, and has called exactly that one when the task has
\* ended; for a name with no task it calls none and fails with the
\* unregistered-stage error for that name.
C11_OneTaskPerStage ==
    \A w \in WorkerIds :
        LET stage == Payload(w).stage IN
        IF stage \in TaskNames
        THEN /\ CalledBy(w) \subseteq {task_map[stage]}
             /\ TaskEnded(w) => CalledBy(w) = {task_map[stage]}
             /\ Pc(w) # "unregistered"
        ELSE /\ CalledBy(w) = {}
             /\ Pc(w) \in {"run_stage", "unregistered"}
             /\ run_stage(stage) = Raised("ValueError", "No task registered for stage ", stage)

\* C11 witness: one message has been executed with its task called, another
\* delivery of a message with an unregistered name has failed with no call.
C11_Witness ==
    /\ \E w \in WorkerIds :
          Payload(w).stage = "Gold" /\ Pc(w) = "unregistered" /\ CalledBy(w) = {}
    /\ \E w \in WorkerIds :
          Payload(w).stage = "bronze" /\ Pc(w) = "completed"
             /\ CalledBy(w) = {"bronze_stage.run"}

\* C12 as stated, for the queue-triggered executor: a message whose stage has
\* no task fails its invocation and is not tried again, i.e. is delivered to
\* no second invocation.
C12_ConfigErrorNotRetried ==
    \A w \in WorkerIds :
        Pc(w) = "unregistered" => Payload(w).dequeue_count <= 1

\* The value that comes back for a value stored: a tuple comes back as a
\* list, the other values as they are.
AsRead(value) == IF value.t = "tuple" THEN PyValue("list", value.v) ELSE value

\* Thread t has returned from a call of get.
GetReturned(t) == threads[t].pc = "idle" /\ threads[t].op = "get"

\* C13 as stated: get returns the value given to the last update of the key,
\* and the default for a key never updated.
C13_RoundTrip ==
    \A t \in DOMAIN threads :
        GetReturned(t) =>
            threads[t].result =
                IF threads[t].key \in DOMAIN journal.given
                THEN journal.given[threads[t].key]
                ELSE threads[t].default

\* C13 amended: get returns what json.load reads back of the value given to
\* the last update of the key (the value itself, but a list for a tuple),
\* and the default, unchanged, for a key never updated.
C13_RoundTripJson ==
    \A t \in DOMAIN threads :
        GetReturned(t) =>
            threads[t].result =
                IF threads[t].key \in DOMAIN journal.given
                THEN AsRead(journal.given[threads[t].key])
                ELSE threads[t].default

\* C13 witness: get has returned the string given to update for one key, in
\* a document where the other key was never updated.
C13_Witness ==
    \E t \in DOMAIN threads :
        /\ GetReturned(t)
        /\ DOMAIN journal.given = {threads[t].key}
        /\ journal.given[threads[t].key] = PyValue("str", "x")
        /\ threads[t].result = PyValue("str", "x")
        /\ threads[t].default = PyValue("int", "0")

\* C14: the file at the checkpoint path is at all times the complete
\* document of the last write that reached its rename, holding the values of
\* the updates that completed and no other, whatever write is under way or
\* was interrupted by a crash.
C14_PreviousDocumentIntact ==
    links.path # 0 =>
        /\ inodes[links.path].state = "document"
        /\ inodes[links.path] = journal.committed
        /\ LoadDict(inodes[links.path].doc) =
              [k \in DOMAIN journal.given |-> AsRead(journal.given[k])]

\* C14 witness: the process died in an update of a key after the temporary
\* file was written, and a later get of that key returned the value from
\* before that update.
C14_Witness ==
    \E t \in DOMAIN threads :
        /\ journal.crashes > 0 /\ journal.crashedIn = "replace"
        /\ GetReturned(t) /\ threads[t].key = journal.interrupted
        /\ threads[t].key \notin DOMAIN journal.given
        /\ threads[t].result = threads[t].default

\* No thread is in a constructor or in a call.
AllReturned == \A t \in DOMAIN threads : threads[t].pc \in {"idle", "failed"}

\* C15 as stated: when all constructors and calls of the threads have
\* returned, the document holds for every key the value of the last update
\* made to it.
C15_NoLostUpdate ==
    AllReturned =>
        /\ links.path # 0
        /\ inodes[links.path].state = "document"
        /\ \A k \in DOMAIN journal.given :
              /\ k \in DOMAIN inodes[links.path].doc
              /\ json_load(inodes[links.path].doc[k]) = AsRead(journal.given[k])

\* C16 as stated: the file at the checkpoint path, when there is one, is a
\* complete document.
C16_NoPartialDocument ==
    links.path # 0 => inodes[links.path].state = "document"

\* C17 as stated: the watermark never decreases from one write to the next;
\* every write stores a value greater than the watermark its extraction
\* read; and an extraction that found no row above that watermark has made
\* no write.
C17_WatermarkMonotone ==
    /\ \A i \in 2..Len(written) : written[i - 1].value <= written[i].value
    /\ \A i \in 1..Len(written) :
          written[i].read.some => written[i].read.v < written[i].value
    /\ \A e \in DOMAIN extractions :
          extractions[e].pc = "done" /\ ~extractions[e].chk.some =>
              \A i \in 1..Len(written) : written[i].by # e

\* C18: every result a validator returns has passed exactly when its errors
\* are empty, whatever its warnings, the result of the early return of the
\* schema validator included.
C18_PassedIffNoErrors ==
    validation.pc = "returned" =>
        validation.result.passed = (validation.result.errors = <<>>)

\* C18 witness: the schema validator has returned early, DESCRIBE having
\* failed.
C18_Witness ==
    /\ validation.pc = "returned" /\ validation.validator = "schema"
    /\ validation.input.describe = "raises"
    /\ ~validation.result.passed /\ Len(validation.result.errors) = 1

\* The elements of a list.
Range(list) == {list[i] : i \in 1..Len(list)}

\* The rules but the i-th.
Without(rules, i) == SubSeq(rules, 1, i - 1) \o SubSeq(rules, i + 1, Len(rules))

\* The quality validator has returned.
QualityReturned == validation.pc = "returned" /\ validation.validator = "quality"

\* The i-th rule is a uniqueness rule on a column with duplicates.
FindsDuplicates(rule) ==
    rule.type = "uniqueness" /\ rule.configured /\ rule.outcome = "violated"

\* C19: a rule of severity warning has no entry in errors, whatever its type
\* and whatever its query does; a uniqueness rule on a column with
\* duplicates has its entry in warnings, with passed what it is without the
\* rule, when its severity is warning, and in errors, with passed false,
\* when its severity is error.
C19_SeverityBucketing ==
    QualityReturned =>
        \A i \in 1..Len(validation.input) :
            LET rule == validation.input[i] IN
            /\ rule.severity = "warning" =>
                  \A e \in Range(validation.result.errors) : e[1] # i
            /\ FindsDuplicates(rule) /\ rule.severity = "warning" =>
                  /\ RuleEntry(i, "violation") \in Range(validation.result.warnings)
                  /\ validation.result.passed
                        = QualityValidate(Without(validation.input, i)).passed
            /\ FindsDuplicates(rule) /\ rule.severity = "error" =>
                  /\ RuleEntry(i, "violation") \in Range(validation.result.errors)
                  /\ ~validation.result.passed

\* C19 witness: a uniqueness rule of severity warning has found duplicates,
\* and the result has passed with that one warning.
C19_Witness ==
    /\ QualityReturned
    /\ Len(validation.input) = 1
    /\ FindsDuplicates(validation.input[1]) /\ validation.input[1].severity = "warning"
    /\ validation.result = ValidationResult(TRUE, <<>>, <<RuleEntry(1, "violation")>>)

\* C20 as stated: every rule has been evaluated, in order, and every rule
\* whose query failed has an entry in errors that names it.
C20_RaisingRuleIsError ==
    QualityReturned =>
        /\ validation.evaluated = [i \in 1..Len(validation.input) |-> i]
        /\ \A i \in 1..Len(validation.input) :
              Executes(validation.input[i]) /\ validation.input[i].outcome = "raises" =>
                  RuleEntry(i, "Error executing validation")
                      \in Range(validation.result.errors)

\* C20 amended: every rule has been evaluated, in order, and every rule
\* whose query failed has an entry that names it, in errors when its
\* severity is error and in warnings otherwise.
C20_RaisingRuleIsReported ==
    QualityReturned =>
        /\ validation.evaluated = [i \in 1..Len(validation.input) |-> i]
        /\ \A i \in 1..Len(validation.input) :
              Executes(validation.input[i]) /\ validation.input[i].outcome = "raises" =>
                  RuleEntry(i, "Error executing validation")
                      \in Range(IF validation.input[i].severity = "error"
                                THEN validation.result.errors
                                ELSE validation.result.warnings)

\* C20 witness: the query of the first rule failed, and the second rule was
\* evaluated all the same and found its violation.
C20_Witness ==
    /\ QualityReturned
    /\ Len(validation.input) = 2
    /\ validation.input[1].type = "custom_sql" /\ validation.input[1].outcome = "raises"
    /\ validation.result.errors =
          <<RuleEntry(1, "Error executing validation"), RuleEntry(2, "violation")>>
    /\ validation.evaluated = <<1, 2>>

\* validate has made its passes: the schema pass returned a result, and the
\* run is past the passes that follow.
PassesMade ==
    /\ contract_run.caller \in {"validate", "validate_and_report", "_run_contract_check"}
    /\ contract_run.result.schema_result.some
    /\ contract_run.pc \in {"result", "returned", "raised"}

IsConcatenation(whole, a, b, c) ==
    /\ Len(whole) = Len(a) + Len(b) + Len(c)
    /\ \A i \in 1..Len(a) : whole[i] = a[i]
    /\ \A i \in 1..Len(b) : whole[Len(a) + i] = b[i]
    /\ \A i \in 1..Len(c) : whole[Len(a) + Len(b) + i] = c[i]

\* validate has returned its result to the caller.
ValidateReturned == contract_run.caller = "validate" /\ contract_run.pc = "returned"

\* C22: of the result validate returns, passed is the conjunction of the
\* passed flags of the schema and quality results and of the SLA result if
\* there is one; all_errors is the errors of the schema, quality and SLA
\* results in that order, entry by entry, and all_warnings their warnings
\* likewise (no SLA result gives no SLA entries).
C22_Aggregation ==
    ValidateReturned =>
        LET seen == contract_run.outcome.value
            schema == seen.result.schema_result.r
            quality == seen.result.quality_result.r
            sla == IF seen.result.sla_result.some THEN seen.result.sla_result.r
                   ELSE ValidationResult(TRUE, <<>>, <<>>)
        IN  /\ seen.passed = (schema.passed /\ quality.passed /\ sla.passed)
            /\ IsConcatenation(seen.all_errors, schema.errors, quality.errors, sla.errors)
            /\ IsConcatenation(seen.all_warnings,
                               schema.warnings, quality.warnings, sla.warnings)

\* C22 witness: the schema and SLA results have errors and the schema and
\* quality results have warnings.
C22_Witness ==
    /\ ValidateReturned
    /\ contract_run.outcome.value.result.schema_result.r.errors # <<>>
    /\ contract_run.outcome.value.result.quality_result.r.warnings # <<>>
    /\ contract_run.outcome.value.result.sla_result.some
    /\ contract_run.outcome.value.result.sla_result.r.errors # <<>>
    /\ contract_run.outcome.value.result.schema_result.r.warnings # <<>>
    /\ ~contract_run.outcome.value.passed
    /\ Len(contract_run.outcome.value.all_errors) >= 2
    /\ Len(contract_run.outcome.value.all_warnings) = 2

\* A caller of validate has ended after validate gave it a result.
EndedWithResult(caller) ==
    /\ contract_run.caller = caller
    /\ contract_run.pc \in {"returned", "raised"}
    /\ contract_run.result.quality_result.some

\* C26 as stated: validate_and_report raises exactly when the result has
\* not passed and returns True otherwise, and the failure it raises carries
\* the first errors of all_errors, up to the limit, and the number of the
\* others.
C26_ReportCarriesSummary ==
    EndedWithResult("validate_and_report") =>
        LET result == contract_run.result IN
        /\ (contract_run.pc = "raised") = ~passed(result)
        /\ passed(result) => contract_run.outcome = Returned(TRUE)
        /\ ~passed(result) =>
              /\ contract_run.outcome.error[1] = "RuntimeError"
              /\ contract_run.outcome.error[3].first = Take(all_errors(result), SummaryLimit)
              /\ contract_run.outcome.error[3].more
                    = (IF Len(all_errors(result)) > SummaryLimit
                       THEN Len(all_errors(result)) - SummaryLimit ELSE 0)

\* C26 amended: validate_and_report raises exactly when the result has not
\* passed and returns True otherwise; the failure it raises carries the
\* number of the errors of all_errors and quotes none of them (the whole
\* list goes to the log). The summary of the first errors, up to the limit,
\* with the number of the others is the message of the failed check that
\* _run_contract_check returns, which raises nothing.
C26_ReportAndSummary ==
    /\ EndedWithResult("validate_and_report") =>
          LET result == contract_run.result IN
          /\ (contract_run.pc = "raised") = ~passed(result)
          /\ passed(result) => contract_run.outcome = Returned(TRUE)
          /\ ~passed(result) =>
                /\ contract_run.outcome
                      = Raised("RuntimeError", "Contract validation failed",
                               [first |-> <<>>, more |-> 0,
                                count |-> Len(all_errors(result))])
                /\ contract_run.logged = all_errors(result)
    /\ contract_run.caller = "_run_contract_check" => contract_run.pc # "raised"
    /\ EndedWithResult("_run_contract_check") =>
          LET result == contract_run.result
              check == contract_run.outcome.value
          IN  /\ check.passed = passed(result)
              /\ ~passed(result) =>
                    /\ Len(check.message.first) <= SummaryLimit
                    /\ IsPrefix(check.message.first, all_errors(result))
                    /\ Len(check.message.first) + check.message.more
                          = Len(all_errors(result))
                    /\ check.message.more > 0 => Len(check.message.first) = SummaryLimit

\* C26 witness: validate_and_report has raised for a result of five errors,
\* its failure giving their number.
C26_Witness ==
    /\ EndedWithResult("validate_and_report")
    /\ contract_run.pc = "raised"
    /\ Len(all_errors(contract_run.result)) = SummaryLimit + 2
    /\ contract_run.outcome.error[3].count = SummaryLimit + 2

\* The schema validator has returned.
SchemaReturned == validation.pc = "returned" /\ validation.validator = "schema"

\* The names of the columns of the contract.
ExpectedColumns(s) == {s.columns[i].name : i \in 1..Len(s.columns)}

\* C23: when DESCRIBE works, every column of the contract that the dataset
\* has not is named by a "missing" entry of errors and passed is false; the
\* columns of the dataset that are not in the contract are named by one
\* entry of warnings and by no entry of errors, and passed is what it is for
\* the same dataset without them.
C23_ColumnSetCheck ==
    SchemaReturned /\ validation.input.describe = "ok" =>
        LET s == validation.input
            result == validation.result
            missing == ExpectedColumns(s) \ s.actual
            extra == s.actual \ ExpectedColumns(s)
        IN  /\ \A c \in missing :
                  /\ \E i \in 1..Len(result.errors) :
                        /\ result.errors[i].text = "Missing required columns"
                        /\ c \in result.errors[i].columns
                  /\ ~result.passed
            /\ extra # {} =>
                  /\ Cardinality({i \in 1..Len(result.warnings) :
                                     result.warnings[i].columns \cap extra # {}}) = 1
                  /\ \A i \in 1..Len(result.errors) : result.errors[i].columns \cap extra = {}
                  /\ result.passed = SchemaValidate([s EXCEPT !.actual = @ \ extra]).passed

\* C23 witness: a dataset with no values that break a constraint has a
\* column outside the contract and lacks the second column of the contract:
\* one error names the missing column, one warning the extra one.
C23_Witness ==
    /\ SchemaReturned /\ validation.input.describe = "ok"
    /\ validation.input.actual = {"id", "x"}
    /\ ExpectedColumns(validation.input) = {"id", "name"}
    /\ validation.result =
          ValidationResult(FALSE,
              <<Entry("Missing required columns", {"name"}, 0)>>,
              <<Entry("Extra columns found (not in contract)", {"x"}, 0)>>)

\* The SLA validator has returned.
SLAReturned == validation.pc = "returned" /\ validation.validator = "sla"

\* The list holds the entry.
Holds(list, entry) == \E i \in 1..Len(list) : list[i] = entry

\* C24: with max_age_hours in the freshness section, errors holds a
\* freshness entry exactly when the file is older than max_age_hours and a
\* file-not-found entry exactly when the file is not there (a file of age
\* max_age_hours or less gives neither); with min_row_count in the
\* completeness section, errors holds a completeness entry exactly when
\* row_count < min_row_count.
C24_SLAChecks ==
    SLAReturned =>
        LET s == validation.input
            errors == validation.result.errors
        IN  /\ "max_age_hours" \in DOMAIN s.freshness.d =>
                  /\ Holds(errors, "Data freshness violation")
                        = (s.file.some /\ s.file.v > s.freshness.d["max_age_hours"])
                  /\ Holds(errors, "Data file not found") = ~s.file.some
            /\ "min_row_count" \in DOMAIN s.completeness.d =>
                  Holds(errors, "Completeness violation")
                      = (s.row_count < s.completeness.d["min_row_count"])

\* C24 witness: a file exactly max_age_hours old and a dataset of exactly
\* min_row_count rows pass with no error.
C24_Witness ==
    /\ SLAReturned
    /\ validation.input.freshness = Dict("max_age_hours" :> 1)
    /\ validation.input.file = Just(1)
    /\ validation.input.completeness = Dict("min_row_count" :> 2)
    /\ validation.input.row_count = 2
    /\ validation.result = ValidationResult(TRUE, <<>>, <<>>)

\* ContractLoader.load has ended, by a value or by an exception.
LoadEnded == contract_run.caller = "load" /\ contract_run.pc \in {"returned", "raised"}

\* The required keys that a contract file has not.
Absent(contract_file) ==
    {required_fields[i] : i \in 1..Len(required_fields)} \ contract_file.keys

\* The contract file parses to nothing: None, or a mapping with no key.
ParsesToNothing(contract_file) ==
    contract_file.parsed = "none" \/ contract_file.keys = {}

\* C25: load of a file that is there ends with the empty-document error if
\* the file parses to nothing; if not, and required keys are absent, with
\* the missing-fields error whose list names every absent key once, in the
\* order of the required keys; and it returns a DataContract exactly when
\* the file is there and has all nine keys.
C25_LoadChecksFields ==
    LoadEnded =>
        LET contract_file == contract_run.input
            outcome == contract_run.outcome
        IN  /\ contract_file.exists /\ ParsesToNothing(contract_file) =>
                  outcome = Raised("ValueError", "Contract file is empty", <<>>)
            /\ contract_file.exists /\ ~ParsesToNothing(contract_file)
                  /\ Absent(contract_file) # {} =>
                  /\ ~outcome.ok
                  /\ outcome.error[1] = "ValueError"
                  /\ outcome.error[2] = "Contract missing required fields"
                  /\ {outcome.error[3][i] : i \in 1..Len(outcome.error[3])}
                        = Absent(contract_file)
                  /\ Len(outcome.error[3]) = Cardinality(Absent(contract_file))
                  /\ outcome.error[3]
                        = SelectSeq(required_fields, LAMBDA f : f \in Absent(contract_file))
            /\ outcome.ok = (contract_file.exists /\ Absent(contract_file) = {})
            /\ outcome.ok => outcome.value = DataContract(contract_file)
            /\ (contract_run.pc = "returned") = outcome.ok

\* C25 witness: load of a mapping without owner and sla has failed and its
\* error names the two.
C25_Witness ==
    /\ LoadEnded
    /\ Absent(contract_run.input) = {"owner", "sla"}
    /\ contract_run.outcome =
          Raised("ValueError", "Contract missing required fields", <<"owner", "sla">>)

Uploaded == UNION {uploads[i].rows : i \in 1..Len(uploads)}

\* C28 as stated: when an execution of the bronze stage failed and a later
\* one has uploaded its file, every row that was in the source when the
\* failed execution began and was above the watermark it read is in an
\* uploaded file.
C28_RetryLosesNoRow ==
    \A f \in DOMAIN extractions : \A g \in DOMAIN extractions :
        /\ f < g
        /\ extractions[f].pc = "failed"
        /\ extractions[g].pc = "uploaded"
        => RowsAbove(extractions[f].before, extractions[f].last_value) \subseteq Uploaded

\* The entries of a list that name column c and have one of the texts.
EntriesFor(list, c, texts) ==
    {i \in 1..Len(list) : c \in list[i].columns /\ list[i].text \in texts}

\* The values of column c of the dataset hold a NULL.
HoldsNull(s, c) ==
    \E i \in 1..Len(ActualColumn(s, c).values) : ActualColumn(s, c).values[i] = Null

\* C29 as stated: for a column of the contract that the dataset has, errors
\* holds a nullability entry for the column exactly when the contract
\* declares it non-nullable (nullable false, or a not_null constraint) and
\* its values hold a NULL.
C29_NullabilityCheck ==
    SchemaReturned /\ validation.input.describe = "ok" =>
        LET s == validation.input IN
        \A n \in 1..Len(s.columns) :
            LET col_def == s.columns[n] IN
            col_def.name \in s.actual =>
                (EntriesFor(validation.result.errors, col_def.name,
                            {"is nullable but contract requires NOT NULL",
                             "has NULL values but contract requires NOT NULL"}) # {})
                = ((~col_def.nullable \/ col_def.not_null) /\ HoldsNull(s, col_def.name))

\* Some value other than NULL is in more than one row.
RepeatsValue(values) ==
    \E i \in 1..Len(values) : \E j \in 1..Len(values) :
        i # j /\ values[i] = values[j] /\ values[i] # Null

\* C30 as stated: for a column with the unique constraint that the dataset
\* has, errors holds a duplicates entry for the column exactly when some
\* value other than NULL is in more than one row.
C30_UniqueIgnoresNulls ==
    SchemaReturned /\ validation.input.describe = "ok" =>
        LET s == validation.input IN
        \A n \in 1..Len(s.columns) :
            LET col_def == s.columns[n] IN
            col_def.name \in s.actual /\ col_def.unique =>
                (EntriesFor(validation.result.errors, col_def.name,
                            {"has duplicates but contract requires UNIQUE"}) # {})
                = RepeatsValue(ActualColumn(s, col_def.name).values)

\* Thread t has left a session by an exception of its read or of its body.
SessionFailed(t) ==
    threads[t].pc = "failed" /\ threads[t].error \in {"JSONDecodeError", "BodyError"}

\* C31: a session whose body raises, or whose read fails, writes nothing (the
\* files of the checkpoint directory and their names are as before the
\* session) and leaves the lock free: no failed thread holds it, so a later
\* get or update of the process can take it.
C31_FailedSessionReleases ==
    /\ [](\A t \in DOMAIN threads : threads[t].pc = "failed" => checkpoint_lock # t)
    /\ [][\A t \in DOMAIN threads :
            threads[t].pc = "idle" /\ SessionFailed(t)'
            => inodes' = inodes /\ links' = links /\ checkpoint_lock' = 0]_vars

\* A session's body has raised in a process that has committed an update.
C31_Witness ==
    /\ \E t \in DOMAIN threads :
          threads[t].pc = "failed" /\ threads[t].error = "BodyError"
    /\ DOMAIN journal.given # {}

\* C32 as stated: once the update of the other process has written its
\* value, every complete document at the path holds that value for its key,
\* whatever a get session does around it.
C32_GetNeverReverts ==
    \A k \in DOMAIN journal.given :
        inodes[links.path].state = "document" =>
            /\ k \in DOMAIN inodes[links.path].doc
            /\ json_load(inodes[links.path].doc[k]) = AsRead(journal.given[k])

\* C33 as stated: the schema pass of a validation run always ends with a
\* result of the schema validator, also when a query of a column constraint
\* fails.
C33_SchemaNeverRaises ==
    Len(contract_run.passes) >= 1 => contract_run.result.schema_result.some

\* The updates of the checkpoint made by execution e.
WritesOf(e) == {i \in DOMAIN written : written[i].by = e}

ContinuationsFor(r, s) ==
    {i \in 1..Len(messages[r]) :
        messages[r][i].parent # Timer /\ messages[r][i].stage = s}

\* C35 as stated: for one pipeline run at most one continuation message per
\* stage is ever enqueued, whatever crashes and redeliveries happen.
C35_OneContinuationPerStage ==
    \A r \in 1..Len(messages) : \A s \in {order[i] : i \in 1..Len(order)} :
        Cardinality(ContinuationsFor(r, s)) <= 1

\* Thread t ends a session of get or update in this step by the rename of
\* its _write.
SessionCommits(t) ==
    /\ threads[t].pc = "replace" /\ threads[t].in = "session"
    /\ threads'[t].pc = "idle"

\* C36: the session of update(k, v) changes the document at the path in the
\* value of k only (k is there afterwards with v as json.dump writes it,
\* every other key is there as before and no other key is added), and the
\* session of get(k, default) leaves the mapping of the document as it was,
\* k not being added when it is absent.
C36_FrameConditions ==
    [][\A t \in DOMAIN threads :
          SessionCommits(t) =>
             LET old == inodes[links.path]
                 new == inodes'[links'.path]
                 k == threads[t].key
             IN  /\ old.state = "document" /\ new.state = "document"
                 /\ IF threads[t].op = "update"
                    THEN /\ DOMAIN new.doc = DOMAIN old.doc \cup {k}
                         /\ new.doc[k] = json_dump(threads[t].value)
                         /\ \A j \in DOMAIN old.doc \ {k} : new.doc[j] = old.doc[j]
                    ELSE new.doc = old.doc]_vars

\* An update of one key and then a get of the other key have returned: the
\* document holds the first key only.
C36_Witness ==
    /\ \E t \in DOMAIN threads :
          /\ threads[t].pc = "idle" /\ threads[t].op = "get"
          /\ threads[t].key \notin DOMAIN journal.given
    /\ DOMAIN journal.given # {}
    /\ journal.ops = 2
    /\ links.path # 0
    /\ DOMAIN inodes[links.path].doc = DOMAIN journal.given

\* The rule's type is none of those _validate_rule knows.
UnknownType(rule) == rule.type \notin {"uniqueness", "not_null", "volume", "custom_sql"}

\* C37: a rule of an unknown type has one entry, in warnings, that says its
\* type is unknown, and no entry in errors, whatever its severity; passed is
\* what it is without the rule.
C37_UnknownTypeIsWarning ==
    QualityReturned =>
        \A i \in 1..Len(validation.input) :
            UnknownType(validation.input[i]) =>
                /\ RuleEntry(i, "Unknown rule type") \in Range(validation.result.warnings)
                /\ \A e \in Range(validation.result.errors) : e[1] # i
                /\ validation.result.passed
                      = QualityValidate(Without(validation.input, i)).passed

\* A rule of an unknown type and severity error is the only rule: the
\* result has passed, with the one warning.
C37_Witness ==
    /\ QualityReturned
    /\ Len(validation.input) = 1
    /\ UnknownType(validation.input[1]) /\ validation.input[1].severity = "error"
    /\ validation.result = ValidationResult(TRUE, <<>>, <<RuleEntry(1, "Unknown rule type")>>)

\* C38: every continuation message carries the config_path of the message
\* the invocation that sent it had consumed, and so that of the message the
\* timer function sent to start the run.
C38_SameConfigPath ==
    \A r \in 1..Len(messages) : \A i \in 1..Len(messages[r]) :
        messages[r][i].parent # Timer =>
            /\ messages[r][i].config_path = Payload(messages[r][i].parent).config_path
            /\ messages[r][i].config_path = messages[r][1].config_path

\* Two runs started on different configurations have each sent a
\* continuation message.
C38_Witness ==
    /\ Len(messages) = 2
    /\ Len(messages[1]) >= 2 /\ Len(messages[2]) >= 2
    /\ messages[1][1].config_path # messages[2][1].config_path

====
